---- MODULE Spec2Model ----
(***************************************************************************)
(* Verification model of the gads-creator dashboard back end and client   *)
(* views: the two account routes with their process-local TTL caches, the  *)
(* campaign route, the Google Ads client wrapper, the diagnostic tracer,   *)
(* the in-memory server log and the loading state of the client views.     *)
(***************************************************************************)
EXTENDS Integers, Sequences, FiniteSets, TLC

(***************************************************************************)
(* Bounds of the model.                                                    *)
(***************************************************************************)
MaxInFlight == 2
MaxReqs == 2
MaxTicks == 2
MaxCampaignReqs == 1
MaxLogs == 102
MaxOtherLogs == 1
MaxTraces == 102
MaxTracerStarts == 2
MaxCalls == 2
MaxConcurrentCalls == 1
MaxLateWarnings == 1
MaxFetches == 2
MaxDebugReqs == 2

(***************************************************************************)
(* Program constants.                                                      *)
(***************************************************************************)
CACHE_TTL == 60 * 60 * 1000
MAX_MEMORY_LOGS == 100
TIMEOUT_MS == 55000

(***************************************************************************)
(* Strings.  Template literals render an undefined value as "undefined".   *)
(***************************************************************************)
RECURSIVE IndexOfFrom(_, _, _)
IndexOfFrom(s, ch, i) ==
  IF i > Len(s) THEN 0
  ELSE IF SubSeq(s, i, i) = ch THEN i
  ELSE IndexOfFrom(s, ch, i + 1)

\* s.includes(sub)
Includes(s, sub) ==
  \E i \in 1..(Len(s) - Len(sub) + 1) : SubSeq(s, i, i + Len(sub) - 1) = sub

\* s.split(sep)[1]: the text between the first and the second separator;
\* HasSplit1 is FALSE when the result is undefined (no separator at all).
HasSplit1(s, sep) == IndexOfFrom(s, sep, 1) # 0

Split1(s, sep) ==
  LET i == IndexOfFrom(s, sep, 1)
      j == IndexOfFrom(s, sep, i + 1)
  IN  IF j = 0 THEN SubSeq(s, i + 1, Len(s)) ELSE SubSeq(s, i + 1, j - 1)

(***************************************************************************)
(* Sessions as getServerSession returns them.  present = FALSE is the      *)
(* null session; hasEmail = FALSE is a session whose user has no email.    *)
(***************************************************************************)
\* a JavaScript value that is undefined or a string
JsUndefined == [defined |-> FALSE, text |-> ""]
JsString(text) == [defined |-> TRUE, text |-> text]

MkSession(uid, hasEmail, email, hasToken) ==
  [present |-> TRUE, uid |-> uid, hasEmail |-> hasEmail, email |-> email,
   refreshToken |-> hasToken]

NoSession ==
  [present |-> FALSE, uid |-> "", hasEmail |-> FALSE, email |-> "",
   refreshToken |-> FALSE]

Sessions ==
  { NoSession,
    MkSession("u0", TRUE, "z", FALSE),
    MkSession("u1", TRUE, "a-b", TRUE),
    MkSession("u2", TRUE, "b", TRUE),
    MkSession("u3", FALSE, "", TRUE),
    MkSession("u4", FALSE, "", TRUE) }

Authenticated(sess) == sess.present /\ sess.refreshToken

\* values of the mccId query parameter; "" stands for an absent or empty one
MccIds == {"", "1", "1-a"}

\* `${session.user?.email}`
EmailText(sess) == IF sess.hasEmail THEN sess.email ELSE "undefined"

HierarchyCacheKey(mccId, sess) == "hierarchy-" \o mccId \o "-" \o EmailText(sess)

AccountsCacheKey(sess) == "accounts-" \o EmailText(sess)

(***************************************************************************)
(* CustomerAccount values.                                                 *)
(***************************************************************************)
Account(id, displayName, isMCC, hasParent, parentId) ==
  [id |-> id, resourceName |-> "customers/" \o id, displayName |-> displayName,
   isMCC |-> isMCC, hasParent |-> hasParent, parentId |-> parentId]

\* the placeholder the hierarchy route builds when the MCC fetch failed
PlaceholderAccount(mccId) ==
  Account(mccId, "MCC Account " \o mccId, TRUE, FALSE, "")

\* an account as getMCCAccounts formats it on its direct REST path
ListedAccount(id) == Account(id, "Account " \o id, FALSE, FALSE, "")

MOCK_CUSTOMER_ACCOUNTS ==
  << Account("1234567890", "Test Account 1", FALSE, FALSE, ""),
     Account("9876543210", "Test MCC Account", TRUE, FALSE, ""),
     Account("5555555555", "Sub Account 1", FALSE, TRUE, "9876543210") >>

\* outcome of getMCCAccounts: it throws, or returns a list of accounts
MccThrow == [ok |-> FALSE]
MccOk(accounts) == [ok |-> TRUE, accounts |-> accounts]
MccResults ==
  {MccThrow, MccOk(<<ListedAccount("1")>>),
   MccOk(<<ListedAccount("1"), ListedAccount("1-a")>>)}

\* outcome of getAccessibleCustomers as the accounts route sees it
CustomersNull == [kind |-> "null"]
CustomersResults ==
  {CustomersNull,
   [kind |-> "object", resourceNames |-> <<"customers/1">>],
   [kind |-> "array", items |-> <<"customers/1", "customers/7">>]}

\* outcome of one live sub-account strategy: it throws, or yields raw ids
StrategyFail == [ok |-> FALSE]
StrategyOk(rows) == [ok |-> TRUE, rows |-> rows]
StrategyOutcomes == {StrategyFail, StrategyOk(<<>>), StrategyOk(<<"5">>)}

SeqFilter(s, Keep(_)) ==
  LET F[i \in 0..Len(s)] ==
        IF i = 0 THEN <<>>
        ELSE IF Keep(s[i]) THEN Append(F[i - 1], s[i]) ELSE F[i - 1]
  IN  F[Len(s)]

SeqMap(s, Op(_)) == [i \in 1..Len(s) |-> Op(s[i])]

\* GAQL rows: the MCC itself and rows without an id are dropped
GaqlAccounts(mccId, rows) ==
  LET Keep(id) == ~(id = mccId \/ id = "")
      Mk(id) == Account(id, "Account " \o id, FALSE, TRUE, mccId)
  IN  SeqMap(SeqFilter(rows, Keep), Mk)

\* listAccountsViaV11: only the MCC itself is skipped; any failure gives []
V11Accounts(mccId, rows) ==
  LET Keep(id) == id # mccId
      Mk(id) == Account(id, "Account " \o id, FALSE, TRUE, mccId)
  IN  SeqMap(SeqFilter(rows, Keep), Mk)

\* client-manager endpoint: ids other than the MCC
ManagerAccounts(mccId, rows) ==
  LET Keep(id) == id # mccId
      Mk(id) == Account(id, "Account " \o id, FALSE, TRUE, mccId)
  IN  SeqMap(SeqFilter(rows, Keep), Mk)

\* the earlier route's hard-coded list, as a fallback inside getSubAccounts
getSubAccountsWithFallback(mccId, gaql, v11, mgr) ==
  IF gaql.ok /\ GaqlAccounts(mccId, gaql.rows) # <<>>
    THEN GaqlAccounts(mccId, gaql.rows)
  ELSE IF v11.ok /\ V11Accounts(mccId, v11.rows) # <<>>
    THEN V11Accounts(mccId, v11.rows)
  ELSE IF mgr.ok /\ ManagerAccounts(mccId, mgr.rows) # <<>>
    THEN ManagerAccounts(mccId, mgr.rows)
  ELSE <<Account("7983840017", "TMates - 28/4 (798-384-0017)", FALSE, TRUE,
                 mccId)>>

\* GoogleAdsClient.getSubAccounts in live mode: the first strategy that
\* yields a non-empty list wins; when all have failed the result is [].
\* The method catches everything and never throws.
getSubAccounts(mccId, gaql, v11, mgr) ==
  IF gaql.ok /\ GaqlAccounts(mccId, gaql.rows) # <<>>
    THEN GaqlAccounts(mccId, gaql.rows)
  ELSE IF v11.ok /\ V11Accounts(mccId, v11.rows) # <<>>
    THEN V11Accounts(mccId, v11.rows)
  ELSE IF mgr.ok /\ ManagerAccounts(mccId, mgr.rows) # <<>>
    THEN ManagerAccounts(mccId, mgr.rows)
  ELSE <<>>

(***************************************************************************)
(* Array.prototype.slice(start, end) on a sequence, with JavaScript's      *)
(* treatment of negative and out-of-range indices.                         *)
(***************************************************************************)
Min(a, b) == IF a < b THEN a ELSE b
Max(a, b) == IF a > b THEN a ELSE b

JsSlice(s, start, end) ==
  LET n == Len(s)
      from == IF start < 0 THEN Max(n + start, 0) ELSE Min(start, n)
      to == IF end < 0 THEN Max(n + end, 0) ELSE Min(end, n)
  IN  SubSeq(s, from + 1, to)

(***************************************************************************)
(* serverLogger: persistLog and getRecentLogs.                             *)
(***************************************************************************)
LogLevels == {"debug", "info", "warn", "error"}

NoLevel == ""

\* a persistLog that keeps the oldest entries when the buffer is full
persistLogKeepOldest(logs, entry) ==
  LET unshifted == <<entry>> \o logs
  IN  IF Len(unshifted) > MAX_MEMORY_LOGS
        THEN JsSlice(unshifted, 1, MAX_MEMORY_LOGS + 1)
        ELSE unshifted

\* memoryLogs after persistLog(entry): unshift, then slice(0, MAX_MEMORY_LOGS)
persistLog(logs, entry) ==
  LET unshifted == <<entry>> \o logs
  IN  IF Len(unshifted) > MAX_MEMORY_LOGS
        THEN JsSlice(unshifted, 0, MAX_MEMORY_LOGS)
        ELSE unshifted

getRecentLogs(logs, limit, level) ==
  IF level # NoLevel
    THEN LET Keep(log) == log.level = level
         IN  JsSlice(SeqFilter(logs, Keep), 0, limit)
    ELSE JsSlice(logs, 0, limit)

(***************************************************************************)
(* diagnostics.ts: the DiagnosticTracer singleton.  timeoutId = 0 is null; *)
(* pending holds the ids of the timers that were set and neither cleared   *)
(* nor fired.                                                              *)
(***************************************************************************)
NewTracer ==
  [isActive |-> FALSE, traces |-> <<>>, timeoutMs |-> 0, timeoutId |-> 0,
   pending |-> {}, ended |-> FALSE]

\* start(timeoutMs), arming timer id `timer`
TracerStart(T, timeoutMs, timer) ==
  [isActive |-> TRUE, traces |-> <<>>, timeoutMs |-> timeoutMs,
   timeoutId |-> IF timeoutMs > 0 THEN timer ELSE T.timeoutId,
   pending |-> IF timeoutMs > 0 THEN T.pending \cup {timer} ELSE T.pending,
   ended |-> FALSE]

\* an addTrace that keeps at most MAX_MEMORY_LOGS traces, dropping the oldest
TracerAddTraceCapped(T, trace) ==
  IF ~T.isActive THEN T
  ELSE [T EXCEPT !.traces =
          IF Len(T.traces) >= MAX_MEMORY_LOGS
            THEN Append(Tail(T.traces), trace)
            ELSE Append(T.traces, trace)]

\* addTrace(source, message, data)
TracerAddTrace(T, trace) ==
  IF ~T.isActive THEN T
  ELSE [T EXCEPT !.traces = Append(T.traces, trace)]

\* end(error): the state after the call; it returns the report (the traces)
TracerEnd(T) ==
  IF ~T.isActive THEN T
  ELSE [T EXCEPT !.pending = IF T.timeoutId # 0 THEN @ \ {T.timeoutId} ELSE @,
                 !.timeoutId = 0,
                 !.isActive = FALSE,
                 !.ended = TRUE]

\* the callback of the timer set by start()
TracerTimerFired(T, timer) ==
  TracerEnd(TracerAddTrace([T EXCEPT !.pending = @ \ {timer}],
                           [message |-> "Request timed out", by |-> 0]))

(***************************************************************************)
(* googleAds.ts: GoogleAdsClient.getAccessibleCustomers and getMCCAccounts *)
(* as step machines.  A call is suspended at one await at a time; pc names *)
(* the awaited remote step, fn the method whose await it is, top the       *)
(* method the caller invoked (getMCCAccounts falls back to                 *)
(* this.getAccessibleCustomers).                                           *)
(***************************************************************************)
Calls == 1..MaxCalls

NoResult == [kind |-> "none"]

IdleCall ==
  [pc |-> "idle", fn |-> "", top |-> "", restStarted |-> FALSE,
   restFailed |-> FALSE, sdkStarted |-> FALSE, result |-> NoResult]

Returned(via) == [kind |-> "returned", via |-> via]

ReturnedValue(via, value) ==
  [kind |-> "returned", via |-> via, value |-> value]

\* what getAccessibleCustomers returns in mock mode
MockAccessibleCustomers ==
  LET ResourceName(a) == a.resourceName
  IN  [resourceNames |-> SeqMap(MOCK_CUSTOMER_ACCOUNTS, ResourceName)]

\* a constructor that accepts credentials of exactly 10 characters
hasValidCredentialsFromTen(developerToken, clientId, clientSecret) ==
  /\ developerToken.defined /\ Len(developerToken.text) >= 10
  /\ clientId.defined /\ Len(clientId.text) >= 10
  /\ clientSecret.defined /\ Len(clientSecret.text) >= 10

\* the constructor's hasValidCredentials: each credential is truthy and
\* longer than 10 characters
hasValidCredentials(developerToken, clientId, clientSecret) ==
  /\ developerToken.defined /\ Len(developerToken.text) > 10
  /\ clientId.defined /\ Len(clientId.text) > 10
  /\ clientSecret.defined /\ Len(clientSecret.text) > 10

\* the environment variables the singleton is constructed from
Credentials ==
  {JsUndefined, JsString(""), JsString("0123456789"), JsString("0123456789a")}

\* process.env.GOOGLE_ADS_DEVELOPER_TOKEN || ""
DeveloperTokens == Credentials \ {JsUndefined}

Thrown(message, code) ==
  [kind |-> "thrown", message |-> message, code |-> code,
   diagnosticReport |-> <<>>]

\* the message createTimeoutPromise rejects with
TimeoutMessage(errorMessage, timeoutMs) ==
  errorMessage \o ": Timeout after " \o ToString(timeoutMs) \o "ms"

\* AbortSignal.timeout(ms) of the fetch awaited at pc; 0 = not a fetch
FetchTimeoutMs(pc) ==
  CASE pc \in {"validate_token", "rest_token"} -> 10000
    [] pc \in {"validate_info", "rest_ping", "ping"} -> 5000
    [] pc = "rest_api" -> 20000
    [] OTHER -> 0

RestSteps == {"rest_ping", "rest_token", "rest_api"}

\* a model of the client in which the SDK call is awaited without a timeout
WrapperTimeoutMsSdkUnbounded(fn, pc) ==
  CASE fn = "gac" /\ pc \in RestSteps -> 30000
    [] fn = "gac" /\ pc = "import" -> 20000
    [] OTHER -> 0

\* timeout of the createTimeoutPromise wrapped around the step awaited at
\* pc; 0 = the step is not wrapped
WrapperTimeoutMs(fn, pc) ==
  CASE fn = "gac" /\ pc \in RestSteps -> 30000
    [] fn = "gac" /\ pc = "import" -> 20000
    [] fn = "gac" /\ pc = "sdk" -> TIMEOUT_MS - 5000
    [] OTHER -> 0

WrapperMessage(pc) ==
  CASE pc \in RestSteps -> "Direct REST implementation timed out"
    [] pc = "import" -> "Google Ads API module import timed out"
    [] OTHER -> "Google Ads API listAccessibleCustomers call timed out"

\* how an awaited step can settle: resolved, resolved with a value of
\* another shape (a token without the adwords scope, a REST answer without
\* a resourceNames array), rejected, rejected with an error carrying a
\* code, rejected with a value that is not an Error
OutcomesAt(pc) ==
  CASE pc \in {"validate_info", "rest_api"} -> {"ok", "okOther", "error"}
    [] pc \in {"import", "m_import"} -> {"ok", "error", "errorCode"}
    [] pc = "sdk" -> {"ok", "error", "errorCode", "errorValue"}
    [] OTHER -> {"ok", "error"}

SettleOutcomes == {"ok", "okOther", "error", "errorCode", "errorValue"}

\* a model of the client that starts with the SDK path
FirstStrategySdk == "import"

\* the strategy tried first once the refresh token is validated
FirstStrategy == "rest_ping"

\* what a synchronous stretch of a method does: the call's next state, the
\* traces it adds, the levels it logs at, whether it calls tracer.start()
\* first and tracer.end() last, whether it caches the imported module, and
\* how many background timers it sets
Eff(call, traces, logs, start, end, module, timers) ==
  [call |-> call, traces |-> traces, logs |-> logs, start |-> start,
   end |-> end, module |-> module, timers |-> timers]

\* getAccessibleCustomers from its first line to its first await
GacEnter(top, mock) ==
  IF mock
    THEN Eff([IdleCall EXCEPT !.pc = "returned", !.fn = "gac", !.top = top,
                              !.result = ReturnedValue(
                                           "mock", MockAccessibleCustomers)],
             <<"getAccessibleCustomers started", "Using mock data">>,
             <<"info", "info", "info", "info">>, TRUE, TRUE, FALSE, 0)
    ELSE Eff([IdleCall EXCEPT !.pc = "validate_token", !.fn = "gac",
                              !.top = top],
             <<"getAccessibleCustomers started", "Refresh token validated">>,
             <<"info", "info", "info">>, TRUE, FALSE, FALSE, 0)

\* getMCCAccounts from its first line to its first await
MccEnter(mock) ==
  IF mock
    THEN Eff([IdleCall EXCEPT !.pc = "returned", !.fn = "mcc", !.top = "mcc",
                              !.result = ReturnedValue(
                                           "mock", MOCK_CUSTOMER_ACCOUNTS)],
             <<>>, <<>>, FALSE, FALSE, FALSE, 0)
    ELSE Eff([IdleCall EXCEPT !.pc = "validate_token", !.fn = "mcc",
                              !.top = "mcc"],
             <<>>, <<>>, FALSE, FALSE, FALSE, 0)

\* a caught value that is an Error; code "" = it has no code
JsError(message, code) ==
  [isError |-> TRUE, message |-> message, code |-> code]

\* a caught value that is not an instance of Error, such as a failure object
\* the SDK rejects with
JsNonError(message, code) ==
  [isError |-> FALSE, message |-> message, code |-> code]

\* the id createLogSession gives the session of call c
uuidv4(c) == "session-" \o ToString(c)

\* a client whose outer catch rethrows what it caught
EnhancedErrorRaw(error) ==
  [kind |-> "thrown", message |-> error.message, code |-> error.code,
   diagnosticReport |-> <<>>, errorDetails |-> error, sessionId |-> ""]

\* the error the outer catch of getAccessibleCustomers throws for the
\* caught `error`; the report and the session id are filled in when the
\* tracer is ended
EnhancedError(error) ==
  [kind |-> "thrown",
   message |-> "Failed to fetch Google Ads accounts: "
                 \o (IF error.isError THEN error.message
                     ELSE "Unknown error"),
   code |-> IF error.code = "" THEN "GOOGLE_ADS_API_ERROR" ELSE error.code,
   diagnosticReport |-> <<>>, errorDetails |-> error, sessionId |-> ""]

\* getAccessibleCustomers' outer catch, after `traces` and `logs` of the
\* inner handlers: end the tracer, log, and throw the enhanced error
GacThrow(r, traces, logs, error) ==
  Eff([r EXCEPT !.pc = "thrown", !.result = EnhancedError(error)],
      traces, logs \o <<"error", "info">>, FALSE, TRUE, FALSE, 0)

\* a client that goes on to the direct REST call with an invalid token
ValidationFailedIgnored(r) ==
  Eff([r EXCEPT !.pc = "rest_ping", !.restStarted = TRUE],
      <<>>, <<>>, FALSE, FALSE, FALSE, 0)

\* validateRefreshToken returned false
ValidationFailed(r) ==
  IF r.fn = "gac"
    THEN GacThrow(r, <<"Refresh token validation failed">>, <<"error">>,
                  JsError("Refresh token validation failed", ""))
    ELSE Eff([r EXCEPT !.pc = "thrown",
                       !.result = Thrown("Refresh token validation failed", "")],
             <<>>, <<>>, FALSE, FALSE, FALSE, 0)

\* the code after the module is available, up to the network test
AfterImport(r, traces, logs, module) ==
  Eff([r EXCEPT !.pc = "ping"],
      traces \o <<"Google Ads API module imported",
                  "Creating GoogleAdsApi instance",
                  "GoogleAdsApi client created",
                  "Calling listAccessibleCustomers API">>,
      logs \o <<"info", "info", "info", "info", "debug">>,
      FALSE, FALSE, module, 0)

\* a client without the fallback: a failure of the direct REST strategy is
\* thrown at once
RestFailedThrows(r, moduleCached) ==
  IF r.fn = "gac"
    THEN GacThrow([r EXCEPT !.restFailed = TRUE], <<>>, <<"error">>,
                  JsError("Direct REST implementation failed", ""))
    ELSE GacEnter("mcc", FALSE)

\* the direct REST strategy failed (or timed out)
RestFailed(r, moduleCached) ==
  IF r.fn = "gac"
    THEN LET r2 == [r EXCEPT !.restFailed = TRUE]
             traces == <<"Dynamically importing Google Ads API">>
             logs == <<"error", "info", "debug">>
         IN  IF moduleCached
               THEN AfterImport(r2, traces, logs, FALSE)
               ELSE Eff([r2 EXCEPT !.pc = "import"], traces, logs,
                        FALSE, FALSE, FALSE, 0)
    ELSE GacEnter("mcc", FALSE)

\* the direct REST strategy resolved with `value`, which
\* getAccessibleCustomers returns as it is
RestOk(r, value) ==
  IF r.fn = "gac"
    THEN Eff([r EXCEPT !.pc = IF r.top = "mcc" THEN "m_import" ELSE "returned",
                       !.fn = r.top,
                       !.result = IF r.top = "mcc" THEN NoResult
                                  ELSE ReturnedValue("directRest", value)],
             <<>>, <<"info", "info">>, FALSE, TRUE, FALSE, 0)
    ELSE Eff([r EXCEPT !.pc = "returned", !.result = Returned("directRest")],
             <<>>, <<>>, FALSE, FALSE, FALSE, 0)

\* the catch around the import and the SDK call
SdkPathFailed(r, error) ==
  GacThrow(r, <<"Error importing or initializing Google Ads API">>,
           <<"error">>, error)

ErrorCode(event) == IF event = "errorCode" THEN "E" ELSE ""

\* what the step of the library path awaited at r.pc rejects with on `event`
Rejection(r, event) ==
  CASE event = "timeout" ->
         JsError(TimeoutMessage(WrapperMessage(r.pc),
                                WrapperTimeoutMs(r.fn, r.pc)), "")
    [] event = "errorValue" -> JsNonError("quota exceeded", "")
    [] r.pc = "import" -> JsError("import failed", ErrorCode(event))
    [] OTHER -> JsError("listAccessibleCustomers failed", ErrorCode(event))

\* the continuation of call r when the step it awaits settles with `event`:
\* an outcome of OutcomesAt, "abort" (the fetch's AbortSignal fired) or
\* "timeout" (the createTimeoutPromise timer fired)
Step(r, event, moduleCached) ==
  CASE r.pc = "validate_token" ->
         IF event = "ok"
           THEN Eff([r EXCEPT !.pc = "validate_info"],
                    <<>>, <<>>, FALSE, FALSE, FALSE, 0)
           ELSE ValidationFailed(r)
    [] r.pc = "validate_info" ->
         IF event = "ok"
           THEN Eff([r EXCEPT !.pc = FirstStrategy,
                              !.restStarted = (FirstStrategy = "rest_ping")],
                    <<>>, IF r.fn = "gac" THEN <<"info">> ELSE <<>>,
                    FALSE, FALSE, FALSE, 0)
           ELSE ValidationFailed(r)
    [] r.pc = "rest_ping" ->
         IF event = "timeout"
           THEN RestFailed(r, moduleCached)
           ELSE Eff([r EXCEPT !.pc = "rest_token"],
                    <<>>, <<>>, FALSE, FALSE, FALSE, 0)
    [] r.pc = "rest_token" ->
         IF event = "ok"
           THEN Eff([r EXCEPT !.pc = "rest_api"],
                    <<>>, <<>>, FALSE, FALSE, FALSE, 0)
           ELSE RestFailed(r, moduleCached)
    [] r.pc = "rest_api" ->
         IF event = "ok" \/ (event = "okOther" /\ r.fn = "gac")
           THEN RestOk(r, event)
           ELSE RestFailed(r, moduleCached)
    [] r.pc = "import" ->
         IF event = "ok"
           THEN AfterImport(r, <<>>, <<>>, TRUE)
           ELSE SdkPathFailed(r, Rejection(r, event))
    [] r.pc = "ping" ->
         Eff([r EXCEPT !.pc = "sdk", !.sdkStarted = TRUE],
             <<>>, <<IF event = "ok" THEN "info" ELSE "warn", "debug">>,
             FALSE, FALSE, FALSE, 2)
    [] r.pc = "sdk" ->
         IF event = "ok"
           THEN Eff([r EXCEPT !.pc = IF r.top = "mcc" THEN "m_import"
                                     ELSE "returned",
                              !.fn = r.top,
                              !.result = IF r.top = "mcc" THEN NoResult
                                         ELSE Returned("sdk")],
                    <<"API call successful">>, <<"info", "info">>,
                    FALSE, TRUE, FALSE, 0)
           ELSE SdkPathFailed(r, Rejection(r, event))
    [] OTHER ->   \* r.pc = "m_import": getMCCAccounts' own import
         IF event = "ok"
           THEN Eff([r EXCEPT !.pc = "returned",
                              !.result = Returned("getAccessibleCustomers")],
                    <<>>, <<>>, FALSE, FALSE, FALSE, 0)
           ELSE Eff([r EXCEPT !.pc = "thrown",
                              !.result = Thrown("import failed",
                                                ErrorCode(event))],
                    <<>>, <<>>, FALSE, FALSE, FALSE, 0)

(***************************************************************************)
(* The client views that load accounts.  Each holds its loading flag, what *)
(* it shows, whether the timer in timeoutRef is armed, the number of its   *)
(* HTTP requests still in flight and the number of fetches started.        *)
(***************************************************************************)
View(loading, shown, timer, pending, fetches) ==
  [loading |-> loading, shown |-> shown, timer |-> timer,
   pending |-> pending, fetches |-> fetches]

VARIABLES
  hierarchyCache,   \* Map cacheKey -> [data, timestamp] of the hierarchy route
  accountsCache,    \* Map cacheKey -> [data, timestamp] of the accounts route
  clock,            \* Date.now()
  ticks,            \* number of clock advances so far
  inflight,         \* request slot -> handler suspended at an await, or Idle
  nreq,             \* number of requests received so far
  lastResp,         \* the response sent last
  storedAt,         \* cacheKey -> clock value when the entry was last set
  campaignCalls,    \* the params createSearchCampaign has been called with
  campaignsCreated, \* the params for which createSearchCampaign succeeded
  campResp,         \* the campaign request handled last and its response
  ncamp,            \* number of campaign requests handled so far
  memoryLogs,       \* serverLogger's in-memory entries, newest first
  fileLoggingAvailable, \* serverLogger's flag: the log file can be written
  nlog,             \* number of entries logged so far (the next entry's id)
  nerr,             \* number of entries logged at a level other than info
  tracer,           \* the diagnosticTracer singleton and its pending timers
  added,            \* traces passed to addTrace while active, since start()
  nstart,           \* number of tracing sessions started so far
  client,           \* the googleAdsClient singleton: constructed, useMockData
  calls,            \* call -> the client method call suspended at an await
  googleAdsApiModule, \* the dynamically imported module is cached
  lateTimers,       \* number of pending 20 s / 40 s warning timers
  nlate,            \* number of those timers that have fired
  dashboard,        \* DashboardPage
  selector,         \* AccountSelector
  selectorUseMockData, \* AccountSelector's useMockData state
  hierarchy,        \* AccountHierarchy
  debugResp,        \* the last response of a debug endpoint, with its request
  ndebug            \* number of requests to the debug endpoints so far

campVars == <<campaignCalls, campaignsCreated, campResp, ncamp>>

logVars == <<memoryLogs, fileLoggingAvailable, nlog, nerr>>

tracerVars == <<tracer, added, nstart>>

routeVars ==
  <<hierarchyCache, accountsCache, clock, ticks, inflight, nreq, lastResp,
    storedAt>>

clientVars == <<client, calls, googleAdsApiModule, lateTimers, nlate>>

viewVars == <<dashboard, selector, selectorUseMockData, hierarchy>>

debugVars == <<debugResp, ndebug>>

\* the variables each subsystem leaves alone
notRouteVars == <<campVars, logVars, tracerVars, clientVars, viewVars, debugVars>>
notCampVars == <<routeVars, logVars, tracerVars, clientVars, viewVars, debugVars>>
notLogVars == <<routeVars, campVars, tracerVars, clientVars, viewVars, debugVars>>
notTracerVars == <<routeVars, campVars, logVars, clientVars, viewVars, debugVars>>

vars ==
  <<routeVars, campVars, logVars, tracerVars, clientVars, viewVars, debugVars>>

Idle == [pc |-> "idle"]

NoDebugResp == [endpoint |-> "", status |-> 0]

NoResp == [status |-> 0, body |-> [none |-> TRUE], fromCache |-> FALSE]

Slots == 1..MaxInFlight

FreeSlots == {s \in Slots : inflight[s] = Idle}

\* JSON body of an error response
ErrorBody(code) == [error |-> TRUE, code |-> code]

Respond(status, body, fromCache) ==
  [status |-> status, body |-> body, fromCache |-> fromCache]

Init ==
  /\ hierarchyCache = <<>>
  /\ accountsCache = <<>>
  /\ clock = 0
  /\ ticks = 0
  /\ inflight = [s \in Slots |-> Idle]
  /\ nreq = 0
  /\ lastResp = NoResp
  /\ storedAt = <<>>
  /\ campaignCalls = {}
  /\ campaignsCreated = {}
  /\ campResp = [status |-> 0]
  /\ ncamp = 0
  /\ memoryLogs = <<>>
  /\ fileLoggingAvailable = TRUE
  /\ nlog = 0
  /\ nerr = 0
  /\ tracer = NewTracer
  /\ added = <<>>
  /\ nstart = 0
  /\ client = [constructed |-> FALSE, useMockData |-> FALSE]
  /\ calls = [c \in Calls |-> IdleCall]
  /\ googleAdsApiModule = FALSE
  /\ lateTimers = 0
  /\ nlate = 0
  /\ dashboard = View(TRUE, "none", FALSE, 0, 0)
  /\ selector = View(FALSE, "none", FALSE, 0, 0)
  /\ selectorUseMockData = TRUE
  /\ hierarchy = View(TRUE, "none", FALSE, 0, 0)
  /\ debugResp = NoDebugResp
  /\ ndebug = 0

\* cache.set(key, value) on a Map held as a function
MapSet(m, k, v) == [x \in (DOMAIN m) \cup {k} |-> IF x = k THEN v ELSE m[x]]

\* a delete that leaves the entry in place
MapDeleteNothing(m, k) == m

\* cache.delete(key)
MapDelete(m, k) == [x \in (DOMAIN m) \ {k} |-> m[x]]

\* a TTL test that also serves an entry that is exactly CACHE_TTL old
CacheFreshInclusive(m, k, now) ==
  k \in DOMAIN m /\ now - m[k].timestamp <= CACHE_TTL

\* the TTL test of both routes: cachedData && (now - cachedData.timestamp < CACHE_TTL)
CacheFresh(m, k, now) == k \in DOMAIN m /\ now - m[k].timestamp < CACHE_TTL

(***************************************************************************)
(* GET /api/google-ads/accounts/hierarchy, up to its first await on the    *)
(* Google Ads client.                                                      *)
(***************************************************************************)
HierStart(mccId, sess, clearCache) ==
  /\ UNCHANGED notRouteVars
  /\ nreq < MaxReqs
  /\ nreq' = nreq + 1
  /\ UNCHANGED <<accountsCache, clock, ticks>>
  /\ IF mccId = ""
       THEN /\ lastResp' = Respond(400, ErrorBody("MISSING_MCCID"), FALSE)
            /\ UNCHANGED <<hierarchyCache, inflight, storedAt>>
     ELSE IF ~sess.present
       THEN /\ lastResp' = Respond(401, ErrorBody("NOT_AUTHENTICATED"), FALSE)
            /\ UNCHANGED <<hierarchyCache, inflight, storedAt>>
     ELSE IF ~sess.refreshToken
       THEN /\ lastResp' = Respond(401, ErrorBody("MISSING_REFRESH_TOKEN"), FALSE)
            /\ UNCHANGED <<hierarchyCache, inflight, storedAt>>
     ELSE
       LET cacheKey == HierarchyCacheKey(mccId, sess)
           cache1 == IF clearCache THEN MapDelete(hierarchyCache, cacheKey)
                     ELSE hierarchyCache
           now == clock
       IN  /\ hierarchyCache' = cache1
           /\ storedAt' = IF clearCache THEN MapDelete(storedAt, cacheKey)
                          ELSE storedAt
           /\ IF CacheFresh(cache1, cacheKey, now) /\ ~clearCache
                THEN /\ lastResp' = Respond(200, cache1[cacheKey].data, TRUE)
                     /\ UNCHANGED inflight
                ELSE /\ FreeSlots # {}
                     /\ LET s == CHOOSE x \in FreeSlots :
                                   \A y \in FreeSlots : x <= y
                        IN  inflight' =
                              [inflight EXCEPT ![s] =
                                 [pc |-> "getMCCAccounts",
                                  route |-> "hier", mccId |-> mccId,
                                  sess |-> sess, cacheKey |-> cacheKey,
                                  now |-> now]]
                     /\ UNCHANGED lastResp

\* mccAccounts.find(acc => acc.id === mccId)
FindAccount(accounts, id) ==
  LET hits == {i \in 1..Len(accounts) : accounts[i].id = id}
  IN  IF hits = {} THEN <<>>
      ELSE <<accounts[CHOOSE i \in hits : \A j \in hits : i <= j]>>

(***************************************************************************)
(* The hierarchy handler resumes when getMCCAccounts settles.              *)
(***************************************************************************)
HierMccDone(s, result) ==
  /\ UNCHANGED notRouteVars
  /\ inflight[s] # Idle
  /\ inflight[s].pc = "getMCCAccounts"
  /\ inflight[s].route = "hier"
  /\ LET r == inflight[s]
         mccAccountsFetchError == ~result.ok
         mccAccounts == IF mccAccountsFetchError THEN <<>> ELSE result.accounts
         found == FindAccount(mccAccounts, r.mccId)
     IN  IF found = <<>> /\ ~mccAccountsFetchError
           THEN /\ lastResp' = Respond(404, ErrorBody("MCC_NOT_FOUND"), FALSE)
                /\ inflight' = [inflight EXCEPT ![s] = Idle]
           ELSE /\ inflight' =
                     [inflight EXCEPT ![s] =
                        [pc |-> "getSubAccounts", route |-> "hier",
                         mccId |-> r.mccId, sess |-> r.sess,
                         cacheKey |-> r.cacheKey, now |-> r.now,
                         mccError |-> mccAccountsFetchError,
                         mccAccount |->
                            IF found = <<>>
                              THEN PlaceholderAccount(r.mccId)
                              ELSE [found[1] EXCEPT !.isMCC = TRUE]]]
                /\ UNCHANGED lastResp
  /\ UNCHANGED <<hierarchyCache, accountsCache, clock, ticks, nreq, storedAt>>

\* responseData of the hierarchy route; owner records whose refresh token
\* the data was fetched with
HierarchyData(r, subAccounts, subError) ==
  [mccAccount |-> r.mccAccount, subAccounts |-> subAccounts, success |-> TRUE,
   warnings |-> (r.mccError \/ subError), owner |-> r.sess.uid]

(***************************************************************************)
(* The hierarchy handler resumes when getSubAccounts settles: it builds    *)
(* the response, stores it in the cache and sends it.                      *)
(***************************************************************************)
HierSubDone(s, gaql, v11, mgr) ==
  /\ UNCHANGED notRouteVars
  /\ inflight[s] # Idle
  /\ inflight[s].pc = "getSubAccounts"
  /\ LET r == inflight[s]
         subAccounts == getSubAccounts(r.mccId, gaql, v11, mgr)
         responseData == HierarchyData(r, subAccounts, FALSE)
     IN  /\ hierarchyCache' =
               MapSet(hierarchyCache, r.cacheKey,
                      [data |-> responseData, timestamp |-> r.now])
         /\ storedAt' = MapSet(storedAt, r.cacheKey, clock)
         /\ lastResp' = Respond(200, responseData, FALSE)
  /\ inflight' = [inflight EXCEPT ![s] = Idle]
  /\ UNCHANGED <<accountsCache, clock, ticks, nreq>>

(***************************************************************************)
(* GET /api/google-ads/accounts up to Promise.all.                         *)
(***************************************************************************)
AccStart(sess) ==
  /\ UNCHANGED notRouteVars
  /\ nreq < MaxReqs
  /\ nreq' = nreq + 1
  /\ UNCHANGED <<hierarchyCache, accountsCache, clock, ticks, storedAt>>
  /\ IF ~sess.present
       THEN /\ lastResp' = Respond(401, ErrorBody("NOT_AUTHENTICATED"), FALSE)
            /\ UNCHANGED inflight
     ELSE IF ~sess.refreshToken
       THEN /\ lastResp' = Respond(401, ErrorBody("MISSING_REFRESH_TOKEN"), FALSE)
            /\ UNCHANGED inflight
     ELSE
       LET cacheKey == AccountsCacheKey(sess)
           now == clock
       IN  IF CacheFresh(accountsCache, cacheKey, now)
             THEN /\ lastResp' = Respond(200, accountsCache[cacheKey].data, TRUE)
                  /\ UNCHANGED inflight
             ELSE /\ FreeSlots # {}
                  /\ LET s == CHOOSE x \in FreeSlots :
                                \A y \in FreeSlots : x <= y
                     IN  inflight' =
                           [inflight EXCEPT ![s] =
                              [pc |-> "Promise.all",
                               route |-> "acc", mccId |-> "", sess |-> sess,
                               cacheKey |-> cacheKey, now |-> now]]
                  /\ UNCHANGED lastResp

\* customersList of the accounts route
CustomersList(customersResult) ==
  IF customersResult.kind = "object" THEN customersResult.resourceNames
  ELSE IF customersResult.kind = "array" THEN customersResult.items
  ELSE <<>>

\* formattedCustomers of the accounts route
FormatCustomer(customerResource) ==
  [id |-> Split1(customerResource, "/"), resourceName |-> customerResource,
   displayName |-> "Account " \o Split1(customerResource, "/")]

(***************************************************************************)
(* The accounts handler resumes when both client calls have settled.       *)
(***************************************************************************)
AccDone(s, mccResult, customersResult) ==
  /\ UNCHANGED notRouteVars
  /\ inflight[s] # Idle
  /\ inflight[s].pc = "Promise.all"
  /\ LET r == inflight[s]
     IN  IF mccResult.ok
           THEN LET responseData == [accounts |-> mccResult.accounts,
                                     success |-> TRUE,
                                     owner |-> r.sess.uid]
                IN  /\ accountsCache' =
                          MapSet(accountsCache, r.cacheKey,
                                 [data |-> responseData, timestamp |-> r.now])
                    /\ lastResp' = Respond(200, responseData, FALSE)
         ELSE IF customersResult # CustomersNull
           THEN LET responseData ==
                      [customers |-> SeqMap(CustomersList(customersResult),
                                            FormatCustomer),
                       success |-> TRUE, owner |-> r.sess.uid]
                IN  /\ accountsCache' =
                          MapSet(accountsCache, r.cacheKey,
                                 [data |-> responseData, timestamp |-> r.now])
                    /\ lastResp' = Respond(200, responseData, FALSE)
         ELSE /\ lastResp' = Respond(500, ErrorBody("GOOGLE_ADS_API_ERROR"), FALSE)
              /\ UNCHANGED accountsCache
  /\ inflight' = [inflight EXCEPT ![s] = Idle]
  /\ UNCHANGED <<hierarchyCache, clock, ticks, nreq, storedAt>>

\* time passes
TickSteps == {CACHE_TTL \div 2}

Tick(d) ==
  /\ UNCHANGED notRouteVars
  /\ ticks < MaxTicks
  /\ ticks' = ticks + 1
  /\ clock' = clock + d
  /\ UNCHANGED <<hierarchyCache, accountsCache, inflight, nreq, lastResp,
                 storedAt>>

(***************************************************************************)
(* GET /api/google-ads/debug/full-account-list: the session checks, the    *)
(* SDK import, the mccId check and the GAQL query.  The rows of these       *)
(* inputs hold at most one account, which the final sort leaves in place.  *)
(***************************************************************************)
\* a handler that checks mccId before the session, as the hierarchy route does
FullAccountListMccIdFirst(sess, mccId, importOk, query) ==
  IF mccId = ""
    THEN Respond(400, ErrorBody("MISSING_MCCID"), FALSE)
  ELSE IF ~sess.present
    THEN Respond(401, ErrorBody("NOT_AUTHENTICATED"), FALSE)
  ELSE IF ~sess.refreshToken
    THEN Respond(401, ErrorBody("MISSING_REFRESH_TOKEN"), FALSE)
  ELSE Respond(500, ErrorBody("SDK_IMPORT_FAILED"), FALSE)

\* the handler's response
FullAccountListResponse(sess, mccId, importOk, query) ==
  IF ~sess.present
    THEN Respond(401, ErrorBody("NOT_AUTHENTICATED"), FALSE)
  ELSE IF ~sess.refreshToken
    THEN Respond(401, ErrorBody("MISSING_REFRESH_TOKEN"), FALSE)
  ELSE IF ~importOk
    THEN Respond(500, ErrorBody("SDK_IMPORT_FAILED"), FALSE)
  ELSE IF mccId = ""
    THEN Respond(400, ErrorBody("MISSING_MCCID"), FALSE)
  ELSE IF ~query.ok
    THEN Respond(500, ErrorBody("SDK_QUERY_FAILED"), FALSE)
  ELSE Respond(200,
               [success |-> TRUE, mccId |-> mccId,
                totalAccounts |-> Len(query.rows),
                accounts |-> query.rows, sdk |-> TRUE],
               FALSE)

FullAccountList(sess, mccId, importOk, query) ==
  /\ UNCHANGED notRouteVars
  /\ nreq < MaxReqs
  /\ nreq' = nreq + 1
  /\ UNCHANGED <<hierarchyCache, accountsCache, clock, ticks, inflight,
                 storedAt>>
  /\ lastResp' = FullAccountListResponse(sess, mccId, importOk, query)

NextRoutes ==
  \/ \E mccId \in MccIds, sess \in Sessions, clearCache \in BOOLEAN :
        HierStart(mccId, sess, clearCache)
  \/ \E s \in Slots, result \in MccResults : HierMccDone(s, result)
  \/ \E s \in Slots, gaql \in StrategyOutcomes, v11 \in StrategyOutcomes,
        mgr \in StrategyOutcomes : HierSubDone(s, gaql, v11, mgr)
  \/ \E sess \in Sessions : AccStart(sess)
  \/ \E s \in Slots, mccResult \in MccResults,
        customersResult \in CustomersResults :
        AccDone(s, mccResult, customersResult)
  \/ \E d \in TickSteps : Tick(d)

SpecRoutes == Init /\ [][NextRoutes]_vars

(***************************************************************************)
(* POST /api/google-ads/campaigns                                          *)
(***************************************************************************)
H30 == "123456789012345678901234567890"
H31 == H30 \o "1"
D90 == H30 \o H30 \o H30
D91 == D90 \o "1"

Ten(h) == [i \in 1..10 |-> h]

\* an array field of the JSON body: absent, or a list of strings
Absent == [present |-> FALSE]
ArrayOf(items) == [present |-> TRUE, items |-> items]

HeadlineInputs ==
  {Absent, ArrayOf(<<>>), ArrayOf(Ten(H30)), ArrayOf(SubSeq(Ten(H30), 1, 9)),
   ArrayOf([Ten(H30) EXCEPT ![10] = H31])}

DescriptionInputs ==
  {Absent, ArrayOf(<<>>), ArrayOf(<<D90>>), ArrayOf(<<D90, D91>>)}

\* request bodies; json = FALSE is a body request.json() rejects
CampaignBodies ==
  [json : {TRUE}, customerId : {"", "1234567890"}, name : {"", "Spring"},
   budget : {0, 10}, maxCpc : {1}, headlines : HeadlineInputs,
   descriptions : DescriptionInputs]
  \cup
  {[json |-> FALSE, customerId |-> "", name |-> "", budget |-> 0, maxCpc |-> 0,
    headlines |-> Absent, descriptions |-> Absent]}

\* outcome of createSearchCampaign: a result, or an error with its message
\* classified as the route classifies it (manager / MCC / permission)
CampaignOutcomes == {"created", "throwsMccError", "throwsOther"}

\* the params object the route passes on
CampaignParams(data) ==
  [customerId |-> data.customerId, name |-> data.name, budget |-> data.budget,
   maxCpc |-> data.maxCpc, headlines |-> data.headlines.items,
   descriptions |-> data.descriptions.items]

\* the checks of the file's second POST handler: required fields, exactly
\* 10 headlines, at least one description, and the length limits
CampaignBasicValidation(data) ==
  /\ data.customerId # "" /\ data.name # ""
  /\ data.budget # 0 /\ data.maxCpc # 0
  /\ data.headlines.present /\ data.descriptions.present
  /\ Len(data.headlines.items) = 10
  /\ Len(data.descriptions.items) >= 1
  /\ \A i \in 1..Len(data.headlines.items) :
        Len(data.headlines.items[i]) <= 30
  /\ \A i \in 1..Len(data.descriptions.items) :
        Len(data.descriptions.items[i]) <= 90

\* the route's only check of the body: if (!data.customerId)
CampaignBodyAccepted(data) == data.customerId # ""

CampaignPost(sess, data, outcome) ==
  /\ UNCHANGED notCampVars
  /\ ncamp < MaxCampaignReqs
  /\ ncamp' = ncamp + 1
  /\ IF ~sess.present \/ ~sess.refreshToken
       THEN /\ campResp' = [status |-> 401, sess |-> sess, data |-> data]
            /\ UNCHANGED <<campaignCalls, campaignsCreated>>
     ELSE IF ~data.json \/ ~data.headlines.present \/ ~data.descriptions.present
       \* request.json() or data.headlines.length throws: outer catch
       THEN /\ campResp' = [status |-> 500, sess |-> sess, data |-> data]
            /\ UNCHANGED <<campaignCalls, campaignsCreated>>
     ELSE IF ~CampaignBodyAccepted(data)
       THEN /\ campResp' = [status |-> 400, sess |-> sess, data |-> data]
            /\ UNCHANGED <<campaignCalls, campaignsCreated>>
     ELSE /\ campaignCalls' = campaignCalls \cup {CampaignParams(data)}
          /\ IF outcome = "created"
               THEN /\ campaignsCreated' =
                         campaignsCreated \cup {CampaignParams(data)}
                    /\ campResp' = [status |-> 200, sess |-> sess, data |-> data]
             ELSE IF outcome = "throwsMccError"
               THEN /\ campResp' = [status |-> 400, sess |-> sess, data |-> data]
                    /\ UNCHANGED campaignsCreated
             ELSE /\ campResp' = [status |-> 500, sess |-> sess, data |-> data]
                  /\ UNCHANGED campaignsCreated

\* the second POST handler of the same file; every error of
\* createSearchCampaign is answered 500
CampaignPostBasic(sess, data, outcome) ==
  /\ UNCHANGED notCampVars
  /\ ncamp < MaxCampaignReqs
  /\ ncamp' = ncamp + 1
  /\ IF ~sess.present \/ ~sess.refreshToken
       THEN /\ campResp' = [status |-> 401, sess |-> sess, data |-> data]
            /\ UNCHANGED <<campaignCalls, campaignsCreated>>
     ELSE IF ~data.json
       \* request.json() throws: catch
       THEN /\ campResp' = [status |-> 500, sess |-> sess, data |-> data]
            /\ UNCHANGED <<campaignCalls, campaignsCreated>>
     ELSE IF ~CampaignBasicValidation(data)
       THEN /\ campResp' = [status |-> 400, sess |-> sess, data |-> data]
            /\ UNCHANGED <<campaignCalls, campaignsCreated>>
     ELSE /\ campaignCalls' = campaignCalls \cup {CampaignParams(data)}
          /\ IF outcome = "created"
               THEN /\ campaignsCreated' =
                         campaignsCreated \cup {CampaignParams(data)}
                    /\ campResp' = [status |-> 200, sess |-> sess, data |-> data]
             ELSE /\ campResp' = [status |-> 500, sess |-> sess, data |-> data]
                  /\ UNCHANGED campaignsCreated

NextCampaign ==
  \E sess \in Sessions, data \in CampaignBodies, outcome \in CampaignOutcomes :
     \/ CampaignPost(sess, data, outcome)
     \/ CampaignPostBasic(sess, data, outcome)

SpecCampaign == Init /\ [][NextCampaign]_vars

\* one well-formed campaign body
SpringCampaign ==
  [json |-> TRUE, customerId |-> "1234567890", name |-> "Spring",
   budget |-> 10, maxCpc |-> 1, headlines |-> ArrayOf(Ten(H30)),
   descriptions |-> ArrayOf(<<D90>>)]

\* callers of the API routes: not signed in, signed in without a refresh
\* token, signed in with one
ApiCallers ==
  {NoSession, MkSession("u0", TRUE, "z", FALSE),
   MkSession("u1", TRUE, "a-b", TRUE)}

\* requests to the four Google Ads API routes at one instant
NextApi ==
  \/ \E mccId \in MccIds, sess \in ApiCallers, clearCache \in BOOLEAN :
        HierStart(mccId, sess, clearCache)
  \/ \E s \in Slots, result \in MccResults : HierMccDone(s, result)
  \/ \E s \in Slots, gaql \in StrategyOutcomes, v11 \in StrategyOutcomes,
        mgr \in StrategyOutcomes : HierSubDone(s, gaql, v11, mgr)
  \/ \E sess \in ApiCallers : AccStart(sess)
  \/ \E s \in Slots, mccResult \in MccResults,
        customersResult \in CustomersResults :
        AccDone(s, mccResult, customersResult)
  \/ \E sess \in ApiCallers, mccId \in MccIds, importOk \in BOOLEAN,
        query \in StrategyOutcomes :
        FullAccountList(sess, mccId, importOk, query)
  \/ \E sess \in ApiCallers, outcome \in CampaignOutcomes :
        CampaignPost(sess, SpringCampaign, outcome)
  \/ \E sess \in ApiCallers, outcome \in CampaignOutcomes :
        CampaignPostBasic(sess, SpringCampaign, outcome)

SpecApi == Init /\ [][NextApi]_vars

\* the validity the claim names: non-empty customerId and name, exactly 10
\* headlines of at most 30 characters, at least one description, each of at
\* most 90 characters
ValidCampaignParams(p) ==
  /\ p.customerId # ""
  /\ p.name # ""
  /\ Len(p.headlines) = 10
  /\ \A i \in 1..Len(p.headlines) : Len(p.headlines[i]) <= 30
  /\ Len(p.descriptions) >= 1
  /\ \A i \in 1..Len(p.descriptions) : Len(p.descriptions[i]) <= 90

ValidCampaignBody(data) ==
  /\ data.json
  /\ data.headlines.present
  /\ data.descriptions.present
  /\ ValidCampaignParams(CampaignParams(data))

\* C4: createSearchCampaign is called only with validated campaign data,
\* and every authenticated request whose body violates the validation is
\* answered 400 and creates no campaign.
C4_OnlyValidatedCampaigns ==
  /\ \A p \in campaignCalls : ValidCampaignParams(p)
  /\ ( /\ campResp.status # 0
       /\ Authenticated(campResp.sess)
       /\ ~ValidCampaignBody(campResp.data) )
     => campResp.status = 400

(***************************************************************************)
(* The logger: any of logger.debug / info / warn / error.                  *)
(***************************************************************************)
Log(level, writeFails) ==
  /\ UNCHANGED notLogVars
  /\ nlog < MaxLogs
  /\ level # "info" => nerr < MaxOtherLogs
  /\ nlog' = nlog + 1
  /\ nerr' = IF level # "info" THEN nerr + 1 ELSE nerr
  /\ memoryLogs' = persistLog(memoryLogs, [id |-> nlog + 1, level |-> level])
  /\ fileLoggingAvailable' = (fileLoggingAvailable /\ ~writeFails)

NextLog ==
  \E level \in LogLevels, writeFails \in BOOLEAN : Log(level, writeFails)

SpecLog == Init /\ [][NextLog]_vars

(***************************************************************************)
(* The tracer's methods called directly, and its timer.                    *)
(***************************************************************************)
TraceStart ==
  /\ UNCHANGED notTracerVars
  /\ nstart < MaxTracerStarts
  /\ nstart' = nstart + 1
  /\ tracer' = TracerStart(tracer, TIMEOUT_MS, nstart + 1)
  /\ added' = <<>>

\* the n-th trace of a session
Trace(n) == [message |-> "trace", by |-> n]

TraceAdd ==
  /\ UNCHANGED notTracerVars
  /\ Len(added) < MaxTraces
  /\ tracer' = TracerAddTrace(tracer, Trace(Len(added) + 1))
  /\ added' = IF tracer.isActive THEN Append(added, Trace(Len(added) + 1))
              ELSE added
  /\ UNCHANGED nstart

TraceEnd ==
  /\ UNCHANGED notTracerVars
  /\ tracer' = TracerEnd(tracer)
  /\ UNCHANGED <<added, nstart>>

TraceTimeout(timer) ==
  /\ UNCHANGED notTracerVars
  /\ timer \in tracer.pending
  /\ tracer' = TracerTimerFired(tracer, timer)
  /\ added' = IF tracer.isActive
                THEN Append(added, [message |-> "Request timed out", by |-> 0])
                ELSE added
  /\ UNCHANGED nstart

NextTracer ==
  \/ TraceStart
  \/ TraceAdd
  \/ TraceEnd
  \/ \E timer \in tracer.pending : TraceTimeout(timer)

SpecTracer == Init /\ [][NextTracer]_vars

(***************************************************************************)
(* The client's calls as actions.                                          *)
(***************************************************************************)
RECURSIVE LogEach(_, _, _)
\* logger calls at the given levels, in order; n entries were logged before
LogEach(logs, n, levels) ==
  IF levels = <<>> THEN logs
  ELSE LogEach(persistLog(logs, [id |-> n + 1, level |-> Head(levels)]),
               n + 1, Tail(levels))

RECURSIVE AddTraces(_, _, _)
\* addTrace("googleAds", message) for each message, by call c
AddTraces(T, messages, c) ==
  IF messages = <<>> THEN T
  ELSE AddTraces(TracerAddTrace(T, [message |-> Head(messages), by |-> c]),
                 Tail(messages), c)

OtherLevels(levels) == Cardinality({i \in DOMAIN levels : levels[i] # "info"})

\* the state after call c ran the synchronous stretch eff
Apply(c, eff, writeFails) ==
  LET T0 == IF eff.start THEN TracerStart(tracer, TIMEOUT_MS, nstart + 1)
            ELSE tracer
      T1 == AddTraces(T0, eff.traces, c)
      T2 == IF eff.end THEN TracerEnd(T1) ELSE T1
  IN  /\ tracer' = T2
      /\ nstart' = IF eff.start THEN nstart + 1 ELSE nstart
      /\ added' = T2.traces
      /\ calls' = [calls EXCEPT ![c] =
                     IF eff.end /\ eff.call.result.kind = "thrown"
                       THEN [eff.call EXCEPT
                               !.result.diagnosticReport = T2.traces,
                               !.result.sessionId = uuidv4(c)]
                       ELSE eff.call]
      /\ memoryLogs' = LogEach(memoryLogs, nlog, eff.logs)
      /\ nlog' = nlog + Len(eff.logs)
      /\ nerr' = nerr + OtherLevels(eff.logs)
      /\ fileLoggingAvailable' =
           (fileLoggingAvailable /\ ~(writeFails /\ eff.logs # <<>>))
      /\ googleAdsApiModule' = (googleAdsApiModule \/ eff.module)
      /\ lateTimers' = lateTimers + eff.timers
      /\ UNCHANGED <<client, nlate>>

Running(c) == calls[c].pc \notin {"idle", "returned", "thrown"}

\* call slots are used once, in order, and at most MaxConcurrentCalls calls
\* are in progress at a time
CanCall(c) ==
  /\ calls[c].pc = "idle"
  /\ \A d \in Calls : d < c => calls[d].pc # "idle"
  /\ Cardinality({d \in Calls : Running(d)}) < MaxConcurrentCalls

\* the module is loaded: the logger reports and the singleton is constructed
Construct(developerToken, clientId, clientSecret, isBrowser, writeFails) ==
  /\ UNCHANGED <<routeVars, campVars, viewVars, tracerVars, debugVars>>
  /\ ~client.constructed
  /\ client' =
       [constructed |-> TRUE,
        useMockData |->
          (~hasValidCredentials(developerToken, clientId, clientSecret)
             \/ isBrowser)]
  /\ memoryLogs' = LogEach(memoryLogs, nlog, <<"info">>)
  /\ nlog' = nlog + 1
  /\ fileLoggingAvailable' = (fileLoggingAvailable /\ ~writeFails)
  /\ UNCHANGED <<nerr, calls, googleAdsApiModule, lateTimers, nlate>>

\* a route calls googleAdsClient.getAccessibleCustomers(refreshToken)
GacCall(c, writeFails) ==
  /\ UNCHANGED <<routeVars, campVars, viewVars, debugVars>>
  /\ client.constructed
  /\ CanCall(c)
  /\ Apply(c, GacEnter("gac", client.useMockData), writeFails)

\* a route calls googleAdsClient.getMCCAccounts(refreshToken)
MccCall(c) ==
  /\ UNCHANGED <<routeVars, campVars, viewVars, debugVars>>
  /\ client.constructed
  /\ CanCall(c)
  /\ Apply(c, MccEnter(client.useMockData), FALSE)

\* getSubAccounts(refreshToken, mccId), given how its three strategies end
SubAccountsOf(useMockData, mccId, gaql, v11, mgr) ==
  IF useMockData
    THEN LET Keep(acc) == acc.hasParent /\ acc.parentId = mccId
         IN  ReturnedValue("mock", SeqFilter(MOCK_CUSTOMER_ACCOUNTS, Keep))
    ELSE ReturnedValue("getSubAccounts", getSubAccounts(mccId, gaql, v11, mgr))

\* createSearchCampaign(params, refreshToken) at time now
createSearchCampaign(useMockData, now, importOk) ==
  IF useMockData
    THEN ReturnedValue("mock",
           [success |-> TRUE,
            campaignId |-> "Campaign_MOCK_" \o ToString(now),
            message |-> "Campaign created successfully (MOCK)"])
  ELSE IF importOk
    THEN ReturnedValue("createSearchCampaign",
           [success |-> TRUE, campaignId |-> "Campaign_" \o ToString(now),
            message |-> "Campaign created successfully"])
  ELSE [kind |-> "thrown", message |-> "import failed", code |-> ""]

SubCallMccIds == {"9876543210", "1"}

\* how a strategy of getSubAccounts ends; a row is the id read from an entry
\* of the response, "" when the entry carries an empty one
SubStrategyOutcomes == StrategyOutcomes \cup {StrategyOk(<<"", "1", "5">>)}

\* a route calls googleAdsClient.getSubAccounts(refreshToken, mccId); outside
\* mock mode the first strategy loads the SDK and the others call fetch
SubCall(c, mccId, gaql, v11, mgr) ==
  LET result == SubAccountsOf(client.useMockData, mccId, gaql, v11, mgr)
  IN  /\ UNCHANGED <<routeVars, campVars, viewVars, debugVars, logVars,
                     tracerVars>>
      /\ client.constructed
      /\ CanCall(c)
      /\ calls' = [calls EXCEPT ![c] =
           [pc |-> result.kind, fn |-> "sub", top |-> "sub", mccId |-> mccId,
            restStarted |-> (~client.useMockData /\ ~gaql.ok),
            restFailed |-> FALSE, sdkStarted |-> ~client.useMockData,
            result |-> result]]
      /\ googleAdsApiModule' = (googleAdsApiModule \/ ~client.useMockData)
      /\ UNCHANGED <<client, lateTimers, nlate>>

\* a route calls googleAdsClient.createSearchCampaign(params, refreshToken)
CampaignCall(c, importOk) ==
  LET result == createSearchCampaign(client.useMockData, clock, importOk)
  IN  /\ UNCHANGED <<routeVars, campVars, viewVars, debugVars, logVars,
                     tracerVars>>
      /\ client.constructed
      /\ CanCall(c)
      /\ calls' = [calls EXCEPT ![c] =
           [pc |-> result.kind, fn |-> "campaign", top |-> "campaign",
            restStarted |-> FALSE, restFailed |-> FALSE,
            sdkStarted |-> ~client.useMockData, result |-> result]]
      /\ googleAdsApiModule' =
           (googleAdsApiModule \/ (~client.useMockData /\ importOk))
      /\ UNCHANGED <<client, lateTimers, nlate>>

\* the remote step call c awaits resolves or rejects
Settle(c, outcome, writeFails) ==
  /\ UNCHANGED <<routeVars, campVars, viewVars, debugVars>>
  /\ Running(c)
  /\ outcome \in OutcomesAt(calls[c].pc)
  /\ Apply(c, Step(calls[c], outcome, googleAdsApiModule), writeFails)

\* the AbortSignal.timeout of the fetch call c awaits fires
FetchAbort(c, writeFails) ==
  /\ UNCHANGED <<routeVars, campVars, viewVars, debugVars>>
  /\ Running(c)
  /\ FetchTimeoutMs(calls[c].pc) > 0
  /\ Apply(c, Step(calls[c], "abort", googleAdsApiModule), writeFails)

\* the timer of the createTimeoutPromise call c awaits fires
WrapperTimeout(c, writeFails) ==
  /\ UNCHANGED <<routeVars, campVars, viewVars, debugVars>>
  /\ Running(c)
  /\ WrapperTimeoutMs(calls[c].fn, calls[c].pc) > 0
  /\ Apply(c, Step(calls[c], "timeout", googleAdsApiModule), writeFails)

\* one of the 20 s / 40 s timers set before the SDK call fires and logs
LateWarning(writeFails) ==
  /\ UNCHANGED <<routeVars, campVars, viewVars, tracerVars, debugVars>>
  /\ lateTimers > 0
  /\ nlate < MaxLateWarnings
  /\ lateTimers' = lateTimers - 1
  /\ nlate' = nlate + 1
  /\ memoryLogs' = LogEach(memoryLogs, nlog, <<"warn">>)
  /\ nlog' = nlog + 1
  /\ nerr' = nerr + 1
  /\ fileLoggingAvailable' = (fileLoggingAvailable /\ ~writeFails)
  /\ UNCHANGED <<client, calls, googleAdsApiModule>>

NextClient ==
  \/ \E developerToken \in DeveloperTokens, clientId \in Credentials,
        clientSecret \in Credentials, isBrowser \in BOOLEAN,
        writeFails \in BOOLEAN :
        Construct(developerToken, clientId, clientSecret, isBrowser,
                  writeFails)
  \/ \E c \in Calls, writeFails \in BOOLEAN : GacCall(c, writeFails)
  \/ \E c \in Calls : MccCall(c)
  \/ \E c \in Calls, outcome \in SettleOutcomes,
        writeFails \in BOOLEAN : Settle(c, outcome, writeFails)
  \/ \E c \in Calls, writeFails \in BOOLEAN : FetchAbort(c, writeFails)
  \/ \E c \in Calls, writeFails \in BOOLEAN : WrapperTimeout(c, writeFails)
  \/ \E writeFails \in BOOLEAN : LateWarning(writeFails)
  \/ \E timer \in tracer.pending : TraceTimeout(timer)

SpecClient == Init /\ [][NextClient]_vars

\* a single call after the module is loaded
NextFirstCall ==
  \/ \E developerToken \in DeveloperTokens, clientId \in Credentials,
        clientSecret \in Credentials, isBrowser \in BOOLEAN,
        writeFails \in BOOLEAN :
        Construct(developerToken, clientId, clientSecret, isBrowser,
                  writeFails)
  \/ \E writeFails \in BOOLEAN : GacCall(1, writeFails)
  \/ MccCall(1)
  \/ \E outcome \in SettleOutcomes,
        writeFails \in BOOLEAN : Settle(1, outcome, writeFails)
  \/ \E writeFails \in BOOLEAN : FetchAbort(1, writeFails)
  \/ \E writeFails \in BOOLEAN : WrapperTimeout(1, writeFails)
  \/ \E writeFails \in BOOLEAN : LateWarning(writeFails)
  \/ \E timer \in tracer.pending : TraceTimeout(timer)

\* two HTTP requests, or the parallel promises of the accounts route: a call
\* may start while an earlier one is suspended at an await
GacCallOverlapping(c, writeFails) ==
  /\ UNCHANGED <<routeVars, campVars, viewVars, debugVars>>
  /\ client.constructed
  /\ calls[c].pc = "idle"
  /\ \A d \in Calls : d < c => calls[d].pc # "idle"
  /\ Apply(c, GacEnter("gac", client.useMockData), writeFails)

NextOverlap ==
  \/ \E developerToken \in DeveloperTokens, clientId \in Credentials,
        clientSecret \in Credentials, isBrowser \in BOOLEAN :
        Construct(developerToken, clientId, clientSecret, isBrowser, FALSE)
  \/ \E c \in Calls : GacCallOverlapping(c, FALSE)
  \/ \E c \in Calls, outcome \in SettleOutcomes :
        Settle(c, outcome, FALSE)
  \/ \E c \in Calls : FetchAbort(c, FALSE)
  \/ \E c \in Calls : WrapperTimeout(c, FALSE)
  \/ \E timer \in tracer.pending : TraceTimeout(timer)

SpecOverlap == Init /\ [][NextOverlap]_vars

\* a single call of any of the four client methods, and the passing of time
NextMethods ==
  \/ NextFirstCall
  \/ \E mccId \in SubCallMccIds, gaql \in SubStrategyOutcomes,
        v11 \in SubStrategyOutcomes, mgr \in SubStrategyOutcomes :
        SubCall(1, mccId, gaql, v11, mgr)
  \/ \E importOk \in BOOLEAN : CampaignCall(1, importOk)
  \/ \E d \in TickSteps : Tick(d)

SpecMethods == Init /\ [][NextMethods]_vars

\* timers fire: a fetch that has not settled is aborted when its
\* AbortSignal.timeout elapses, and a createTimeoutPromise whose promise has
\* not settled rejects when its timer elapses.  Nothing is assumed about the
\* remote side.
SpecFirstCallFair ==
  /\ Init /\ [][NextFirstCall]_vars
  /\ WF_vars(\E writeFails \in BOOLEAN : FetchAbort(1, writeFails))
  /\ WF_vars(\E writeFails \in BOOLEAN : WrapperTimeout(1, writeFails))

(***************************************************************************)
(* The views' handlers.                                                     *)
(***************************************************************************)
\* fetchCustomers / fetchAccountHierarchy up to the await of axios.get
ViewFetchStarted(v, armsTimer) ==
  [v EXCEPT !.loading = TRUE,
            !.shown = IF @ = "error" THEN "none" ELSE @,
            !.timer = armsTimer,
            !.pending = @ + 1,
            !.fetches = @ + 1]

\* the continuation after axios.get settled: try or catch, then finally
ViewResponded(v, ok) ==
  [v EXCEPT !.loading = FALSE,
            !.shown = IF ok THEN "data" ELSE "error",
            !.timer = FALSE,
            !.pending = @ - 1]

\* DashboardPage: the effect runs for a session (mount, session change)
DashboardFetch ==
  /\ UNCHANGED <<routeVars, campVars, logVars, tracerVars, clientVars, debugVars>>
  /\ dashboard.fetches < MaxFetches
  /\ dashboard' = ViewFetchStarted(dashboard, TRUE)
  /\ UNCHANGED <<selector, selectorUseMockData, hierarchy>>

\* DashboardPage: the effect runs without a session
DashboardNoSession ==
  /\ UNCHANGED <<routeVars, campVars, logVars, tracerVars, clientVars, debugVars>>
  /\ dashboard' = [dashboard EXCEPT !.loading = FALSE, !.timer = FALSE]
  /\ UNCHANGED <<selector, selectorUseMockData, hierarchy>>

DashboardResponse(ok) ==
  /\ UNCHANGED <<routeVars, campVars, logVars, tracerVars, clientVars, debugVars>>
  /\ dashboard.pending > 0
  /\ dashboard' = ViewResponded(dashboard, ok)
  /\ UNCHANGED <<selector, selectorUseMockData, hierarchy>>

\* DashboardPage: the 60 s timer fires
DashboardTimeout ==
  /\ UNCHANGED <<routeVars, campVars, logVars, tracerVars, clientVars, debugVars>>
  /\ dashboard.timer
  /\ dashboard' = [dashboard EXCEPT !.loading = FALSE, !.shown = "error",
                                    !.timer = FALSE]
  /\ UNCHANGED <<selector, selectorUseMockData, hierarchy>>

\* AccountSelector: useMockData changes (checkbox, "use sample data"); the
\* effect's cleanup clears the timer and the effect runs again
SelectorSetUseMockData(b) ==
  /\ UNCHANGED <<routeVars, campVars, logVars, tracerVars, clientVars, debugVars>>
  /\ b # selectorUseMockData
  /\ ~b => selector.fetches < MaxFetches
  /\ selectorUseMockData' = b
  /\ selector' = IF b
                   THEN [selector EXCEPT !.loading = FALSE, !.shown = "sample",
                                         !.timer = FALSE]
                   ELSE ViewFetchStarted([selector EXCEPT !.timer = FALSE],
                                         TRUE)
  /\ UNCHANGED <<dashboard, hierarchy>>

\* AccountSelector: handleRefresh
SelectorRefresh ==
  /\ UNCHANGED <<routeVars, campVars, logVars, tracerVars, clientVars, debugVars>>
  /\ ~selector.loading /\ ~selectorUseMockData
  /\ selector.fetches < MaxFetches
  /\ selector' = ViewFetchStarted(selector, TRUE)
  /\ UNCHANGED <<dashboard, hierarchy, selectorUseMockData>>

SelectorResponse(ok) ==
  /\ UNCHANGED <<routeVars, campVars, logVars, tracerVars, clientVars, debugVars>>
  /\ selector.pending > 0
  /\ selector' = ViewResponded(selector, ok)
  /\ UNCHANGED <<dashboard, hierarchy, selectorUseMockData>>

\* AccountSelector: the CLIENT_TIMEOUT_MS timer fires
SelectorTimeout ==
  /\ UNCHANGED <<routeVars, campVars, logVars, tracerVars, clientVars, debugVars>>
  /\ selector.timer
  /\ selector' = [selector EXCEPT !.loading = FALSE, !.shown = "sample",
                                  !.timer = FALSE]
  /\ selectorUseMockData' = TRUE
  /\ UNCHANGED <<dashboard, hierarchy>>

\* AccountHierarchy: fetchAccountHierarchy (effect, refresh, force refresh,
\* retry) or fetchFullAccountList; neither sets a timer
HierarchyFetch ==
  /\ UNCHANGED <<routeVars, campVars, logVars, tracerVars, clientVars, debugVars>>
  /\ hierarchy.fetches < MaxFetches
  /\ hierarchy' = ViewFetchStarted(hierarchy, FALSE)
  /\ UNCHANGED <<dashboard, selector, selectorUseMockData>>

\* AccountHierarchy: axios.get settled; a 200 without mccAccount is shown
\* as an error
HierarchyResponse(ok, hasMccAccount) ==
  /\ UNCHANGED <<routeVars, campVars, logVars, tracerVars, clientVars, debugVars>>
  /\ hierarchy.pending > 0
  /\ hierarchy' = ViewResponded(hierarchy, ok /\ hasMccAccount)
  /\ UNCHANGED <<dashboard, selector, selectorUseMockData>>

NextViews ==
  \/ DashboardFetch
  \/ DashboardNoSession
  \/ \E ok \in BOOLEAN : DashboardResponse(ok)
  \/ DashboardTimeout
  \/ \E b \in BOOLEAN : SelectorSetUseMockData(b)
  \/ SelectorRefresh
  \/ \E ok \in BOOLEAN : SelectorResponse(ok)
  \/ SelectorTimeout
  \/ HierarchyFetch
  \/ \E ok \in BOOLEAN, hasMccAccount \in BOOLEAN :
        HierarchyResponse(ok, hasMccAccount)

SpecViews == Init /\ [][NextViews]_vars

\* the browser runs a timer's callback once its delay has elapsed; nothing
\* is assumed about the HTTP requests
SpecViewsFair ==
  /\ SpecViews
  /\ WF_vars(DashboardTimeout)
  /\ WF_vars(SelectorTimeout)

(***************************************************************************)
(* The debug endpoints: /api/debug/google-ads, the timeout test and the    *)
(* log viewer.  process.env is read on every request, so NODE_ENV and      *)
(* ADMIN_EMAIL are inputs of a request.  The outcome of the connectivity   *)
(* tests, which call Google, is an input as well.                          *)
(***************************************************************************)
\* process.env of a request
MkEnv(nodeEnv, adminEmail) == [nodeEnv |-> nodeEnv, adminEmail |-> adminEmail]

DebugEnvs ==
  { MkEnv(n, a) : n \in {"development", "production"},
                  a \in {JsUndefined, JsString("b")} }

\* session.user.email
SessionEmail(sess) ==
  IF sess.hasEmail THEN JsString(sess.email) ELSE JsUndefined

\* the three endpoints' gate:
\* NODE_ENV !== 'development' &&
\*   (!session || !session.user || session.user.email !== ADMIN_EMAIL)
NotAuthorized(env, sess) ==
  /\ env.nodeEnv # "development"
  /\ (~sess.present \/ SessionEmail(sess) # env.adminEmail)

GoogleAdsDebugContext == "session:google-ads-debug"
TimeoutTestContext == "session:google-ads-timeout-test"

RECURSIVE SessionLogEach(_, _, _, _)
\* sessionLogger.<level>(...) for each level in turn, with the session's context
SessionLogEach(logs, n, levels, context) ==
  IF levels = <<>> THEN logs
  ELSE SessionLogEach(
         persistLog(logs, [id |-> n + 1, level |-> Head(levels),
                           context |-> context]),
         n + 1, Tail(levels), context)

\* memoryLogs.filter(log => log.context === context).slice(0, limit)
getLogsByContext(logs, context, limit) ==
  LET Keep(log) == log.context = context
  IN  JsSlice(SeqFilter(logs, Keep), 0, limit)

DebugResponse(endpoint, env, sess, status, ranTest, hasLogs, logs) ==
  [endpoint |-> endpoint, env |-> env, sess |-> sess, status |-> status,
   ranTest |-> ranTest, hasLogs |-> hasLogs, logs |-> logs]

\* the log levels a test endpoint writes, in order, and its response:
\* createLogSession, the gate, the session check, the tests, logSession.end
DebugTestRun(endpoint, env, sess, testLevels, testStatus) ==
  IF NotAuthorized(env, sess)
    THEN [levels |-> <<"info">>,
          resp |-> DebugResponse(endpoint, env, sess, 403, FALSE, FALSE, <<>>)]
  ELSE IF ~sess.present \/ ~sess.refreshToken
    THEN [levels |-> <<"info", "info">>,
          resp |-> DebugResponse(endpoint, env, sess, 401, FALSE, FALSE, <<>>)]
  ELSE [levels |-> <<"info", "info">> \o testLevels \o <<"info">>,
        resp |-> DebugResponse(endpoint, env, sess, testStatus, TRUE, FALSE,
                               <<>>)]

DebugTest(endpoint, context, env, sess, testLevels, testStatus, writeFails) ==
  LET run == DebugTestRun(endpoint, env, sess, testLevels, testStatus)
  IN  /\ UNCHANGED <<routeVars, campVars, tracerVars, clientVars, viewVars>>
      /\ ndebug < MaxDebugReqs
      /\ ndebug' = ndebug + 1
      /\ memoryLogs' = SessionLogEach(memoryLogs, nlog, run.levels, context)
      /\ nlog' = nlog + Len(run.levels)
      /\ nerr' = nerr + OtherLevels(run.levels)
      /\ fileLoggingAvailable' = (fileLoggingAvailable /\ ~writeFails)
      /\ debugResp' = run.resp

\* GET /api/debug/google-ads: three connectivity tests, each logging its
\* start and then its completion (info) or failure (error); always 200
DebugGoogleAds(env, sess, testsOk, writeFails) ==
  LET outcome == IF testsOk THEN "info" ELSE "error"
  IN  DebugTest("google-ads", GoogleAdsDebugContext, env, sess,
                <<"info", outcome, "info", outcome, "info", outcome>>,
                200, writeFails)

\* GET of the timeout test: one SDK call, 200 when it succeeds, 500 when it
\* fails
DebugTimeoutTest(env, sess, testsOk, writeFails) ==
  DebugTest("timeout-test", TimeoutTestContext, env, sess,
            <<"info", "info", "info", "info",
              IF testsOk THEN "info" ELSE "error">>,
            IF testsOk THEN 200 ELSE 500, writeFails)

DebugLimits == {1, 50}
DebugContexts == {"", GoogleAdsDebugContext}

\* GET of the log viewer; context = "" is an absent context parameter
DebugLogs(env, sess, context, limit, level) ==
  /\ UNCHANGED <<routeVars, campVars, logVars, tracerVars, clientVars,
                 viewVars>>
  /\ ndebug < MaxDebugReqs
  /\ ndebug' = ndebug + 1
  /\ debugResp' =
       IF NotAuthorized(env, sess)
         THEN DebugResponse("logs", env, sess, 403, FALSE, FALSE, <<>>)
       ELSE IF context # ""
         THEN DebugResponse("logs", env, sess, 200, FALSE, TRUE,
                            getLogsByContext(memoryLogs, context, limit))
       ELSE DebugResponse("logs", env, sess, 200, FALSE, TRUE,
                          getRecentLogs(memoryLogs, limit, level))

NextDebug ==
  \/ \E env \in DebugEnvs, sess \in Sessions, testsOk \in BOOLEAN,
        writeFails \in BOOLEAN :
        DebugGoogleAds(env, sess, testsOk, writeFails)
  \/ \E env \in DebugEnvs, sess \in Sessions, testsOk \in BOOLEAN,
        writeFails \in BOOLEAN :
        DebugTimeoutTest(env, sess, testsOk, writeFails)
  \/ \E env \in DebugEnvs, sess \in Sessions, context \in DebugContexts,
        limit \in DebugLimits, level \in {NoLevel, "error"} :
        DebugLogs(env, sess, context, limit, level)

SpecDebug == Init /\ [][NextDebug]_vars

(***************************************************************************)
(* Claims about the account routes                                         *)
(***************************************************************************)
\* a hierarchy request that passed the parameter and session checks
HierAccepted(mccId, sess, clearCache) ==
  HierStart(mccId, sess, clearCache) /\ mccId # "" /\ Authenticated(sess)

\* the request was answered in the same step, from the cache, with `data`
AnsweredFromCache(data) ==
  /\ lastResp' = Respond(200, data, TRUE)
  /\ inflight' = inflight

\* the request went on to call getMCCAccounts
FetchStarted ==
  /\ \E s \in Slots : inflight[s] = Idle /\ inflight'[s] # Idle
  /\ lastResp' = lastResp

\* C1 (as stated): a request without clear_cache that arrives less than
\* CACHE_TTL after a response for its key was stored is answered with the
\* stored response and calls neither getMCCAccounts nor getSubAccounts; an
\* entry stored CACHE_TTL ago or earlier is never served.
C1_ServedWithinHourOfStore ==
  [][\A mccId \in MccIds, sess \in Sessions :
       HierAccepted(mccId, sess, FALSE) =>
         LET key == HierarchyCacheKey(mccId, sess)
         IN  key \in DOMAIN storedAt =>
               IF clock - storedAt[key] < CACHE_TTL
                 THEN /\ key \in DOMAIN hierarchyCache
                      /\ AnsweredFromCache(hierarchyCache[key].data)
                 ELSE FetchStarted]_vars

\* C1 (amended): the age of an entry is measured from the cache check of
\* the request that stored it (the entry's timestamp).  A request without
\* clear_cache whose key holds an entry with timestamp less than CACHE_TTL
\* before the request's own cache check is answered with that entry's data
\* and starts no fetch; otherwise (no entry, or timestamp CACHE_TTL or more
\* in the past) the entry is not served and getMCCAccounts is called.
C1_ServedWithinHourOfTimestamp ==
  [][\A mccId \in MccIds, sess \in Sessions :
       HierAccepted(mccId, sess, FALSE) =>
         LET key == HierarchyCacheKey(mccId, sess)
         IN  IF /\ key \in DOMAIN hierarchyCache
                /\ clock - hierarchyCache[key].timestamp < CACHE_TTL
               THEN AnsweredFromCache(hierarchyCache[key].data)
               ELSE FetchStarted]_vars

IsHierarchyData(body) == "mccAccount" \in DOMAIN body

\* a hierarchy response served from an entry that is strictly older than zero
C1_Witness ==
  /\ lastResp.status = 200
  /\ lastResp.fromCache
  /\ IsHierarchyData(lastResp.body)
  /\ \E k \in DOMAIN hierarchyCache :
        /\ hierarchyCache[k].data = lastResp.body
        /\ clock - hierarchyCache[k].timestamp > 0
        /\ clock - hierarchyCache[k].timestamp < CACHE_TTL

\* C2: a request is answered from a cache only with data that was stored
\* while serving the same signed-in user and, on the hierarchy route, the
\* same mccId.
C2_CachePerUserAndMcc ==
  [][/\ \A mccId \in MccIds, sess \in Sessions, clearCache \in BOOLEAN :
          ( /\ HierAccepted(mccId, sess, clearCache)
            /\ inflight' = inflight
            /\ lastResp'.fromCache )
          => /\ lastResp'.body.owner = sess.uid
             /\ lastResp'.body.mccAccount.id = mccId
     /\ \A sess \in Sessions :
          ( /\ AccStart(sess)
            /\ Authenticated(sess)
            /\ inflight' = inflight
            /\ lastResp'.fromCache )
          => lastResp'.body.owner = sess.uid]_vars

\* C3: every entry of the hierarchy cache is a response whose MCC fetch and
\* sub-account fetch both succeeded: no placeholder MCC account and no
\* warnings are cached.
C3_OnlySuccessfulCached ==
  \A k \in DOMAIN hierarchyCache :
     LET d == hierarchyCache[k].data
     IN  /\ d.success
         /\ ~d.warnings
         /\ d.mccAccount # PlaceholderAccount(d.mccAccount.id)

AllStrategiesFailed(s) ==
  HierSubDone(s, StrategyFail, StrategyFail, StrategyFail)

\* C6 (as stated): when every live sub-account strategy has failed the
\* hierarchy response carries the hard-coded known accounts, each with
\* parentId = mccId, and not an empty list.
C6_FallbackList ==
  [][\A s \in Slots :
       AllStrategiesFailed(s) =>
         /\ lastResp'.body.subAccounts # <<>>
         /\ \A i \in 1..Len(lastResp'.body.subAccounts) :
               lastResp'.body.subAccounts[i].parentId = inflight[s].mccId]_vars

\* C6 (amended): when every live sub-account strategy has failed,
\* getSubAccounts returns an empty list and the hierarchy response is a 200
\* whose subAccounts list is empty; no hard-coded list is substituted.
C6_EmptyList ==
  [][\A s \in Slots :
       AllStrategiesFailed(s) =>
         /\ lastResp'.status = 200
         /\ lastResp'.body.subAccounts = <<>>
         /\ lastResp'.body.mccAccount.id = inflight[s].mccId]_vars

\* a fresh hierarchy response with no sub-accounts has been sent
C6_Witness ==
  /\ lastResp.status = 200
  /\ ~lastResp.fromCache
  /\ IsHierarchyData(lastResp.body)
  /\ lastResp.body.subAccounts = <<>>

(***************************************************************************)
(* Claims about the log buffer and the tracer                              *)
(***************************************************************************)
Limits == {0, 1, 50, 99, 100, 101, 150}

\* C9: the log buffer holds at most MAX_MEMORY_LOGS entries, they are
\* exactly the most recent entries logged, newest first, and
\* getRecentLogs(limit) returns the newest min(limit, size) of them.
C9_LogBufferRecent ==
  /\ Len(memoryLogs) <= MAX_MEMORY_LOGS
  /\ Len(memoryLogs) = Min(nlog, MAX_MEMORY_LOGS)
  /\ \A i \in 1..Len(memoryLogs) : memoryLogs[i].id = nlog - i + 1
  /\ \A limit \in Limits :
        getRecentLogs(memoryLogs, limit, NoLevel)
          = [i \in 1..Min(limit, Len(memoryLogs)) |-> memoryLogs[i]]

\* the buffer is full and older entries have been dropped
C9_Witness ==
  /\ nlog > MAX_MEMORY_LOGS
  /\ Len(memoryLogs) = MAX_MEMORY_LOGS
  /\ Len(getRecentLogs(memoryLogs, 50, NoLevel)) = 50

\* C10 (as stated): the number of retained traces never exceeds a fixed
\* cap; the cap taken here is the only one the code base defines.
C10_TracesCapped == Len(tracer.traces) <= MAX_MEMORY_LOGS

\* C10 (amended): the trace list is not capped.  While a tracing session is
\* active every addTrace call appends, so the report holds every trace
\* added since start(), oldest first; nothing is ever dropped.
C10_AllTracesRetained == tracer.traces = added

\* a session that holds more traces than the log buffer would
C10_Witness ==
  /\ tracer.isActive
  /\ Len(tracer.traces) > MAX_MEMORY_LOGS

(***************************************************************************)
(* Claims about the Google Ads client                                      *)
(***************************************************************************)
\* an invocation of getAccessibleCustomers is in progress in call c
GacActive(c) == Running(c) /\ calls[c].fn = "gac"

\* C5 (as stated): the SDK call comes first; the direct REST call is made
\* only after the SDK call has failed.
C5_RestOnlyAfterSdkFailed ==
  \A c \in Calls :
     (calls[c].pc # "idle" /\ calls[c].restStarted) => calls[c].sdkStarted

\* C5 (amended): the direct REST call comes first; the SDK path (module
\* import, listAccessibleCustomers) is entered only after the direct REST
\* call of the same invocation has failed or timed out.
C5_SdkOnlyAfterRestFailed ==
  \A c \in Calls :
     /\ (calls[c].pc \in {"import", "ping", "sdk"} \/ calls[c].sdkStarted)
           => (calls[c].restStarted /\ calls[c].restFailed)
     /\ (calls[c].pc # "idle" /\ calls[c].result.kind = "returned")
           => (calls[c].result.via = "sdk" => calls[c].restFailed)

\* a call that fell back to the SDK after the direct REST call failed
C5_Witness ==
  \E c \in Calls :
     /\ calls[c].pc = "sdk" /\ calls[c].fn = "gac"
     /\ calls[c].restFailed /\ calls[c].sdkStarted

\* C7: an invocation of getAccessibleCustomers, made directly or by
\* getMCCAccounts, eventually returns or throws, whatever the remote side
\* does, because every remote step it awaits is bounded by a timeout.
C7_GacTerminates == GacActive(1) ~> ~GacActive(1)

\* a call that threw because the SDK call ran into its timeout
C7_Witness ==
  LET c == 1 IN
     /\ calls[c].pc = "thrown" /\ calls[c].top = "gac"
     /\ calls[c].result.message =
          "Failed to fetch Google Ads accounts: Google Ads API "
            \o "listAccessibleCustomers call timed out: Timeout after "
            \o "50000ms"

(***************************************************************************)
(* Claims about the client views                                           *)
(***************************************************************************)
\* C8: in each of the three views, once a fetch has started the loading
\* state eventually ends, even if the HTTP request never completes.
C8_LoadingEnds ==
  /\ (dashboard.fetches > 0 /\ dashboard.loading) ~> ~dashboard.loading
  /\ (selector.fetches > 0 /\ selector.loading) ~> ~selector.loading
  /\ (hierarchy.fetches > 0 /\ hierarchy.loading) ~> ~hierarchy.loading

(***************************************************************************)
(* Claims about the debug endpoints                                        *)
(***************************************************************************)
\* the caller of the last debug request is the configured administrator
DebugCallerIsAdmin ==
  /\ debugResp.sess.present
  /\ debugResp.sess.hasEmail
  /\ debugResp.env.adminEmail.defined
  /\ debugResp.sess.email = debugResp.env.adminEmail.text

\* C11: outside development a debug endpoint answers 403, runs no test and
\* returns no logs unless the caller's session email equals the configured
\* ADMIN_EMAIL, whatever ADMIN_EMAIL is, also when it is not set
C11_DebugAdminOnly ==
  (debugResp.endpoint # "" /\ debugResp.env.nodeEnv # "development"
     /\ ~DebugCallerIsAdmin)
    => (debugResp.status = 403 /\ ~debugResp.ranTest /\ ~debugResp.hasLogs)

(***************************************************************************)
(* Claims about the client's mock mode                                     *)
(***************************************************************************)
\* a credential that is missing or at most 10 characters long
MissingOrShort(credential) ==
  ~credential.defined \/ Len(credential.text) <= 10

\* call c is made in this step
CallMade(c) == calls[c].pc = "idle" /\ calls'[c].pc # "idle"

\* what a method returns in mock mode
MockData(call, now) ==
  CASE call.fn = "gac" -> MockAccessibleCustomers
    [] call.fn = "mcc" -> MOCK_CUSTOMER_ACCOUNTS
    [] call.fn = "sub" ->
         LET Keep(acc) == acc.hasParent /\ acc.parentId = call.mccId
         IN  SeqFilter(MOCK_CUSTOMER_ACCOUNTS, Keep)
    [] call.fn = "campaign" ->
         [success |-> TRUE, campaignId |-> "Campaign_MOCK_" \o ToString(now),
          message |-> "Campaign created successfully (MOCK)"]

\* C12: the client is in mock mode exactly when a credential is missing or
\* at most 10 characters long or the code runs in a browser; in mock mode
\* each of the four methods returns its mock data in the step in which it is
\* called, with no token validation, REST call or SDK call
C12_MockMode ==
  [][ /\ \A developerToken \in DeveloperTokens, clientId \in Credentials,
            clientSecret \in Credentials, isBrowser \in BOOLEAN,
            writeFails \in BOOLEAN :
            Construct(developerToken, clientId, clientSecret, isBrowser,
                      writeFails)
              => (client'.useMockData <=>
                    (MissingOrShort(developerToken) \/ MissingOrShort(clientId)
                       \/ MissingOrShort(clientSecret) \/ isBrowser))
      /\ \A c \in Calls :
            (CallMade(c) /\ client.useMockData)
              => /\ calls'[c].pc = "returned"
                 /\ calls'[c].result.via = "mock"
                 /\ calls'[c].result.value = MockData(calls'[c], clock)
                 /\ ~calls'[c].restStarted /\ ~calls'[c].sdkStarted
      /\ \A c \in Calls :
            (CallMade(c) /\ ~client.useMockData)
              => (calls'[c].pc = "thrown" \/ calls'[c].result.kind = "none"
                    \/ calls'[c].result.via # "mock")
    ]_vars

\* a client in mock mode has answered getSubAccounts with a mock sub-account
C12_Witness ==
  /\ client.useMockData
  /\ calls[1].fn = "sub" /\ calls[1].result.value # <<>>

(***************************************************************************)
(* Claims about getSubAccounts                                             *)
(***************************************************************************)
\* the accounts a finished getSubAccounts call returned
SubAccountsReturned(call) ==
  IF call.fn = "sub" /\ call.pc = "returned"
    THEN {call.result.value[i] : i \in DOMAIN call.result.value}
    ELSE {}

\* C13: every account returned by getSubAccounts(mccId), by whichever
\* strategy, has parentId mccId, a non-empty id different from mccId, and
\* resourceName "customers/<id>"
C13_SubAccountShape ==
  \A c \in Calls : \A acc \in SubAccountsReturned(calls[c]) :
    /\ acc.hasParent /\ acc.parentId = calls[c].mccId
    /\ acc.id # "" /\ acc.id # calls[c].mccId
    /\ acc.resourceName = "customers/" \o acc.id

(***************************************************************************)
(* Claims about the diagnostic tracer under overlapping calls              *)
(***************************************************************************)
\* the traces of the diagnostic report attached to call c's error
ReportOf(c) ==
  IF calls[c].result.kind = "thrown" THEN calls[c].result.diagnosticReport
  ELSE <<>>

\* C14: when getAccessibleCustomers calls overlap, the diagnostic report
\* attached to a call's error holds only traces added by that call (or by
\* the tracer's own timeout callback)
C14_ReportHoldsOwnTraces ==
  \A c \in Calls : \A i \in DOMAIN ReportOf(c) : ReportOf(c)[i].by \in {c, 0}

(***************************************************************************)
(* Claims about clear_cache                                                *)
(***************************************************************************)
\* the handler in slot s resumes after getSubAccounts and finishes
HierSubAccountsSettled(s) ==
  /\ inflight[s] # Idle
  /\ inflight[s].pc = "getSubAccounts"
  /\ inflight'[s] = Idle

NothingCalledOrCached ==
  /\ inflight' = inflight
  /\ hierarchyCache' = hierarchyCache /\ accountsCache' = accountsCache
  /\ campaignCalls' = campaignCalls /\ campaignsCreated' = campaignsCreated

\* C16: a request without a session or without a refresh token is answered
\* 401 by the accounts, hierarchy, campaigns and full-account-list routes
\* (400 by the hierarchy route when mccId is missing), calls neither the
\* client nor the SDK and neither reads nor writes a cache
C16_NoCallWithoutRefreshToken ==
  [][\A sess \in ApiCallers : ~Authenticated(sess) =>
       /\ \A mccId \in MccIds, clearCache \in BOOLEAN :
             HierStart(mccId, sess, clearCache)
               => /\ NothingCalledOrCached
                  /\ ~lastResp'.fromCache
                  /\ lastResp'.status = IF mccId = "" THEN 400 ELSE 401
       /\ AccStart(sess)
            => /\ NothingCalledOrCached
               /\ lastResp'.status = 401 /\ ~lastResp'.fromCache
       /\ \A mccId \in MccIds :
             FullAccountList(sess, mccId, TRUE, StrategyOk(<<"5">>))
               => /\ NothingCalledOrCached
                  /\ lastResp'.status = 401 /\ ~lastResp'.fromCache
       /\ (CampaignPost(sess, SpringCampaign, "created")
             \/ CampaignPostBasic(sess, SpringCampaign, "created"))
            => /\ NothingCalledOrCached
               /\ campResp'.status = 401
    ]_vars

\* a request without a refresh token was rejected while the caches held
\* entries and a campaign had been created
C16_Witness ==
  /\ lastResp.status = 401
  /\ lastResp.body = ErrorBody("MISSING_REFRESH_TOKEN")
  /\ hierarchyCache # <<>>
  /\ campaignsCreated # {}

(***************************************************************************)
(* Claims about token validation                                           *)
(***************************************************************************)
\* call c awaits one of the two fetches of validateRefreshToken
InValidation(c) == calls[c].pc \in {"validate_token", "validate_info"}

\* validateRefreshToken of call c returns false in this step: a fetch fails,
\* is aborted, or the token info lacks the adwords scope
ValidationReturnsFalse(c) ==
  /\ InValidation(c)
  /\ \E writeFails \in BOOLEAN :
        \/ FetchAbort(c, writeFails)
        \/ Settle(c, "error", writeFails)
        \/ (calls[c].pc = "validate_info" /\ Settle(c, "okOther", writeFails))

\* C17: outside mock mode getAccessibleCustomers and getMCCAccounts await
\* validateRefreshToken first; the direct REST call starts only when it
\* returned true, and when it returns false the method throws an error whose
\* message contains "Refresh token validation failed" with no REST or SDK
\* call made
C17_ValidateFirst ==
  [][\A c \in Calls :
       /\ (CallMade(c) /\ ~client.useMockData)
            => /\ calls'[c].pc = "validate_token"
               /\ ~calls'[c].restStarted /\ ~calls'[c].sdkStarted
       /\ (~calls[c].restStarted /\ calls'[c].restStarted)
            => calls[c].pc = "validate_info"
       /\ ValidationReturnsFalse(c)
            => /\ calls'[c].pc = "thrown"
               /\ Includes(calls'[c].result.message,
                           "Refresh token validation failed")
               /\ ~calls'[c].restStarted /\ ~calls'[c].sdkStarted
    ]_vars

\* getMCCAccounts and then getAccessibleCustomers were refused for an
\* invalid token
C17_Witness ==
  /\ calls[1].pc = "thrown" /\ calls[1].top = "mcc"
  /\ calls[1].result.message = "Refresh token validation failed"
  /\ calls[2].pc = "thrown" /\ calls[2].top = "gac"
  /\ ~calls[2].restStarted /\ ~calls[2].sdkStarted

(***************************************************************************)
(* Claims about the order of the listing strategies                        *)
(***************************************************************************)
\* the pcs of the second strategy: module import, network test, SDK call
SdkSteps == {"import", "ping", "sdk"}

\* C18: in getAccessibleCustomers with a valid token, when the direct REST
\* call resolves its value is returned as it is and the SDK path is never
\* entered; the SDK path is entered only from a direct REST call that failed
\* or timed out; and the call throws only from the SDK path, that is, after
\* both strategies failed
C18_SecondOnlyAfterFirstFailed ==
  [][\A c \in Calls : calls[c].fn = "gac" =>
       /\ \A outcome \in {"ok", "okOther"}, writeFails \in BOOLEAN :
             (calls[c].pc = "rest_api" /\ calls[c].top = "gac"
                /\ Settle(c, outcome, writeFails))
               => /\ calls'[c].pc = "returned"
                  /\ calls'[c].result = ReturnedValue("directRest", outcome)
                  /\ ~calls'[c].restFailed /\ ~calls'[c].sdkStarted
       /\ (calls[c].pc \notin SdkSteps /\ calls'[c].pc \in SdkSteps)
            => (calls[c].pc \in RestSteps /\ calls'[c].restFailed)
       /\ (~InValidation(c) /\ calls[c].pc # "thrown"
             /\ calls'[c].pc = "thrown")
            => (calls[c].pc \in SdkSteps /\ calls[c].restFailed)
    ]_vars

\* one call returned the direct REST answer without entering the SDK path,
\* another threw after both strategies failed
C18_Witness ==
  /\ calls[1].pc = "returned" /\ calls[1].top = "gac"
  /\ calls[1].result.via = "directRest" /\ ~calls[1].sdkStarted
  /\ calls[2].pc = "thrown" /\ calls[2].top = "gac"
  /\ calls[2].restFailed /\ calls[2].sdkStarted

(***************************************************************************)
(* Claims about the error getAccessibleCustomers throws                    *)
(***************************************************************************)
\* call c of getAccessibleCustomers fails in this step
GacFails(c) ==
  calls[c].pc # "thrown" /\ calls'[c].pc = "thrown" /\ calls'[c].fn = "gac"

\* the values the outer catch can have caught when the call failed at pc
CaughtAt(r) ==
  IF r.pc \in {"validate_token", "validate_info"}
    THEN {JsError("Refresh token validation failed", "")}
    ELSE {Rejection(r, event) :
            event \in {"timeout", "error", "errorCode", "errorValue"}}

\* the code, the report and the session id of the thrown error e of call c,
\* caught as `cause`
CarriesCodeReportAndSession(c, e, cause) ==
  /\ e.code = (IF cause.code # "" THEN cause.code ELSE "GOOGLE_ADS_API_ERROR")
  /\ e.diagnosticReport = tracer'.traces
  /\ e.sessionId = uuidv4(c)

\* C19 as stated: every failure of getAccessibleCustomers throws an error
\* whose message is 'Failed to fetch Google Ads accounts: ' followed by the
\* cause's message, whose code is the cause's code or GOOGLE_ADS_API_ERROR,
\* and which carries the diagnostic report and the log session id
C19_MessageIsCauseMessage ==
  [][\A c \in Calls : GacFails(c) =>
       LET e == calls'[c].result
           cause == e.errorDetails
       IN  /\ cause \in CaughtAt(calls[c])
           /\ e.message = "Failed to fetch Google Ads accounts: "
                            \o cause.message
           /\ CarriesCodeReportAndSession(c, e, cause)
    ]_vars

\* C19: every failure of getAccessibleCustomers throws an error whose
\* message is 'Failed to fetch Google Ads accounts: ' followed by the cause's
\* message when the cause is an Error and by 'Unknown error' when it is not,
\* whose code is the cause's code or GOOGLE_ADS_API_ERROR, and which carries
\* the diagnostic report and the log session id
C19_EnhancedError ==
  [][\A c \in Calls : GacFails(c) =>
       LET e == calls'[c].result
           cause == e.errorDetails
       IN  /\ cause \in CaughtAt(calls[c])
           /\ e.message = "Failed to fetch Google Ads accounts: "
                            \o (IF cause.isError THEN cause.message
                                ELSE "Unknown error")
           /\ CarriesCodeReportAndSession(c, e, cause)
    ]_vars

\* one call failed with an Error that has a code, the next with a value
\* that is not an Error
C19_Witness ==
  /\ calls[1].pc = "thrown" /\ calls[1].fn = "gac"
  /\ calls[1].result.errorDetails.isError
  /\ calls[1].result.code = "E"
  /\ calls[2].pc = "thrown" /\ calls[2].fn = "gac"
  /\ ~calls[2].result.errorDetails.isError
  /\ calls[2].result.message
       = "Failed to fetch Google Ads accounts: Unknown error"
  /\ calls[2].result.sessionId = "session-2"

(***************************************************************************)
(* Claims about the MCC account of the hierarchy route                     *)
(***************************************************************************)
\* the hierarchy request in slot s awaits getSubAccounts
AwaitsSubAccounts(s) ==
  inflight[s] # Idle /\ inflight[s].pc = "getSubAccounts"

\* the response describes the MCC account `mccId`
DescribesMcc(resp, mccId) ==
  resp.status = 200 /\ resp.body.mccAccount.id = mccId
    /\ resp.body.mccAccount.isMCC

\* C20: when getMCCAccounts returned and mccId is not among its accounts, the
\* hierarchy route answers 404 MCC_NOT_FOUND without calling getSubAccounts
\* and without caching; when getMCCAccounts failed, a placeholder account
\* for mccId is used and the answer is 200 with warnings; and in every 200
\* answer of the route mccAccount.id is the requested mccId and
\* mccAccount.isMCC is true
C20_MccAccountOfResponse ==
  [][/\ \A s \in Slots, result \in MccResults :
          HierMccDone(s, result) =>
            LET mccId == inflight[s].mccId
            IN  /\ (result.ok /\ FindAccount(result.accounts, mccId) = <<>>)
                      => /\ lastResp'
                              = Respond(404, ErrorBody("MCC_NOT_FOUND"), FALSE)
                         /\ inflight'[s] = Idle
                         /\ hierarchyCache' = hierarchyCache
                /\ ~result.ok
                      => /\ AwaitsSubAccounts(s)'
                         /\ inflight'[s].mccAccount = PlaceholderAccount(mccId)
     /\ \A s \in Slots :
          (AwaitsSubAccounts(s) /\ inflight'[s] = Idle)
            => /\ DescribesMcc(lastResp', inflight[s].mccId)
               /\ inflight[s].mccError => lastResp'.body.warnings
     /\ \A mccId \in MccIds \ {""}, sess \in Sessions :
          (/\ Authenticated(sess)
           /\ CacheFresh(hierarchyCache, HierarchyCacheKey(mccId, sess), clock)
           /\ HierStart(mccId, sess, FALSE))
            => DescribesMcc(lastResp', mccId)
    ]_vars

====
